---- MODULE Spec2Model ----
(***************************************************************************)
(* State-machine model of the video publishing pipeline:                   *)
(*   - the WatchUploads cron handler and its chokidar "add" callback        *)
(*     (backend/src/jobs/folder-watcher.step.ts),                           *)
(*   - the stage handlers Generate-Thumbnail-Image, Generate-Video-Title    *)
(*     and Upload-To-YouTube (backend/src/events/03.1, 03.2, 04),           *)
(*   - the ErrorHandler (backend/src/events/error-handeler.step.ts),        *)
(*   - the handler "Send the success email" (unnamed/part_001).            *)
(*                                                                         *)
(* Handlers are async functions.  Every `await` is a suspension point: one *)
(* action of the model is the effect of the awaited operation followed by  *)
(* the synchronous code up to the next `await`.  A handler invocation that *)
(* has been enqueued by an emitted event and not started has pc "queued".  *)
(***************************************************************************)
EXTENDS Integers, Sequences, FiniteSets, TLC

VARIABLES
  \* ---- folder watcher (process state + state store group "fileWatcher")
  watcherInitialized, \* module-level latch, folder-watcher.step.ts:5
  watchers,           \* number of chokidar watchers created in the process
  knownFiles,         \* state store ("fileWatcher","knownFiles"): None or Some(list)
  cron,               \* WatchUploads invocations: [1..MaxFirings -> [pc]]
  adds,               \* "add" callbacks: [1..MaxAdds -> [pc, fileName, known]]
  detected,           \* file.new.detected events emitted, per file name
  faults,             \* state-store operations that have thrown so far
  \* ---- pipeline (state store per trace, handler invocations, video host)
  env,                \* process environment and credential store
  store,              \* per-trace state store: [Traces -> [Fields -> None or Some(v)]]
  thumb,              \* Generate-Thumbnail-Image invocation per trace
  title,              \* Generate-Video-Title invocation per trace
  upload,             \* Upload-To-YouTube invocations per trace and triggering topic
  errh,               \* ErrorHandler invocations per trace and error event source
  mail,               \* "Send the success email" invocations per trace and upload invocation
  emitted,            \* number of events emitted, per trace and topic
  inserted,           \* youtube.videos.insert calls made, per trace
  upstream,           \* progress of the stages before prompts.generated, per trace
  pnf,                \* ProcessNewFile invocations, per "add" callback whose event starts them
  sto,                \* storage: STORAGE_TYPE, the adapter singleton, the local files
  oauth               \* OAuth helper: clock of the token collection, clients created

watchVars == <<watcherInitialized, watchers, knownFiles, cron, adds, detected, faults>>
pipeVars  == <<env, store, thumb, title, upload, errh, mail, emitted, inserted, upstream,
               pnf, sto, oauth>>
vars      == <<watcherInitialized, watchers, knownFiles, cron, adds, detected, faults,
               env, store, thumb, title, upload, errh, mail, emitted, inserted, upstream,
               pnf, sto, oauth>>

(***************************************************************************)
(* Bounds of the model.                                                    *)
(***************************************************************************)
MaxFirings == 3   \* scheduler firings of WatchUploads
MaxAdds    == 3   \* chokidar "add" callbacks
MaxFaults  == 1   \* state-store operations that throw in one behaviour

Files  == {"a.mp4", "b.mp4"}
Traces == {"t1"}   \* traces the pipeline runs for

\* Groups of the state store an ErrorHandler invocation can address: a
\* trace, the jobId of an event without traceId, or the literal "unknown".
TraceIds == Traces \cup {"j1", "unknown"}

(***************************************************************************)
(* Optional values: state.get yields undefined/null for an absent key.     *)
(***************************************************************************)
None      == <<>>
Some(v)   == <<v>>
IsSome(o) == o # <<>>
Val(o)    == o[1]

\* Array.prototype.includes on a list
Includes(list, x) == \E i \in 1..Len(list) : list[i] = x

(***************************************************************************)
(*                          FOLDER WATCHER                                 *)
(***************************************************************************)

\* chokidar.watch(...) and the registration of the "add" / "error" callbacks
\* (synchronous; the handler returns afterwards).
CreateWatcher(i) ==
  /\ watchers' = watchers + 1
  /\ cron' = [cron EXCEPT ![i].pc = "done"]

\* HandlerEnter without the assignment `watcherInitialized = true` before the
\* first await (the latch is tested but not set on entry).
HandlerEnterLatchNotSet(i) ==
  /\ cron[i].pc = "idle"
  /\ \A j \in 1..(i-1) : cron[j].pc # "idle"
  /\ IF watcherInitialized
       THEN cron' = [cron EXCEPT ![i].pc = "skipped"]
       ELSE cron' = [cron EXCEPT ![i].pc = "get"]
  /\ UNCHANGED <<watcherInitialized, watchers, knownFiles, adds, detected, faults>>
  /\ UNCHANGED pipeVars

\* A scheduler firing: the synchronous prefix of the handler up to the first
\* await.  With the latch set the handler returns at once; otherwise it sets
\* the latch and suspends in state.get("fileWatcher", "knownFiles").
HandlerEnter(i) ==
  /\ cron[i].pc = "idle"
  /\ \A j \in 1..(i-1) : cron[j].pc # "idle"
  /\ IF watcherInitialized
       THEN /\ cron' = [cron EXCEPT ![i].pc = "skipped"]
            /\ UNCHANGED watcherInitialized
       ELSE /\ watcherInitialized' = TRUE
            /\ cron' = [cron EXCEPT ![i].pc = "get"]
  /\ UNCHANGED <<watchers, knownFiles, adds, detected, faults>>
  /\ UNCHANGED pipeVars

\* await state.get(...) resolves.  An absent list makes the handler write the
\* empty list first; otherwise the watcher is created.
HandlerGet(i) ==
  /\ cron[i].pc = "get"
  /\ IF IsSome(knownFiles)
       THEN /\ CreateWatcher(i)
       ELSE /\ cron' = [cron EXCEPT ![i].pc = "set"]
            /\ UNCHANGED watchers
  /\ UNCHANGED <<watcherInitialized, knownFiles, adds, detected, faults>>
  /\ UNCHANGED pipeVars

\* await state.set("fileWatcher", "knownFiles", []) resolves.
HandlerSet(i) ==
  /\ cron[i].pc = "set"
  /\ knownFiles' = Some(<<>>)
  /\ CreateWatcher(i)
  /\ UNCHANGED <<watcherInitialized, adds, detected, faults>>
  /\ UNCHANGED pipeVars

\* The awaited state operation rejects: the handler's promise rejects and
\* nothing after the await runs.  The latch is left as it is.
HandlerThrow(i) ==
  /\ cron[i].pc \in {"get", "set"}
  /\ faults < MaxFaults
  /\ faults' = faults + 1
  /\ cron' = [cron EXCEPT ![i].pc = "failed"]
  /\ UNCHANGED <<watcherInitialized, watchers, knownFiles, adds, detected>>
  /\ UNCHANGED pipeVars

\* chokidar reports a new file: the callback takes the base name and suspends
\* in state.get.  Callbacks only exist once a watcher has been created.
AddBegin(j, f) ==
  /\ watchers > 0
  /\ adds[j].pc = "idle"
  /\ \A k \in 1..(j-1) : adds[k].pc # "idle"
  /\ adds' = [adds EXCEPT ![j] = [pc |-> "get", fileName |-> f, known |-> <<>>]]
  /\ UNCHANGED <<watcherInitialized, watchers, knownFiles, cron, detected, faults>>
  /\ UNCHANGED pipeVars

\* const known = await state.get(...); if (!known.includes(fileName)) {
\* known.push(fileName); -- then suspends in state.set.  `known` is the
\* callback's own copy of the stored list.
AddGet(j) ==
  /\ adds[j].pc = "get"
  /\ IsSome(knownFiles)
  /\ LET known == Val(knownFiles) IN
       IF Includes(known, adds[j].fileName)
         THEN adds' = [adds EXCEPT ![j].pc = "done"]
         ELSE adds' = [adds EXCEPT ![j].pc = "set",
                                  ![j].known = Append(known, adds[j].fileName)]
  /\ UNCHANGED <<watcherInitialized, watchers, knownFiles, cron, detected, faults>>
  /\ UNCHANGED pipeVars

\* await state.set("fileWatcher", "knownFiles", known) resolves; the callback
\* suspends in emit.
AddSet(j) ==
  /\ adds[j].pc = "set"
  /\ knownFiles' = Some(adds[j].known)
  /\ adds' = [adds EXCEPT ![j].pc = "emit"]
  /\ UNCHANGED <<watcherInitialized, watchers, cron, detected, faults>>
  /\ UNCHANGED pipeVars

\* await emit({ topic: "file.new.detected", ... }) resolves.
AddEmit(j) ==
  /\ adds[j].pc = "emit"
  /\ detected' = [detected EXCEPT ![adds[j].fileName] = @ + 1]
  /\ adds' = [adds EXCEPT ![j].pc = "done"]
  /\ pnf' = [pnf EXCEPT ![j] = "queued"]
  /\ UNCHANGED <<watcherInitialized, watchers, knownFiles, cron, faults>>
  /\ UNCHANGED <<env, store, thumb, title, upload, errh, mail, emitted, inserted, upstream,
                 sto, oauth>>

\* The state operation awaited by the callback rejects: the callback ends.
AddThrow(j) ==
  /\ adds[j].pc \in {"get", "set"}
  /\ faults < MaxFaults
  /\ faults' = faults + 1
  /\ adds' = [adds EXCEPT ![j].pc = "failed"]
  /\ UNCHANGED <<watcherInitialized, watchers, knownFiles, cron, detected>>
  /\ UNCHANGED pipeVars


\* ProcessNewFile, the subscriber of file.new.detected: it reads fileName
\* and filePath from the event, logs them and returns.  It writes no state
\* and emits no event (config.emits is empty).
ProcessNewFile(j) ==
  /\ pnf[j] = "queued"
  /\ pnf' = [pnf EXCEPT ![j] = "done"]
  /\ UNCHANGED watchVars
  /\ UNCHANGED <<env, store, thumb, title, upload, errh, mail, emitted, inserted, upstream,
                 sto, oauth>>

(***************************************************************************)
(*                      PIPELINE: SHARED DEFINITIONS                       *)
(***************************************************************************)

\* The named fields of a trace in the state store (spec section 3), and
\* "generatedContent", which the title stage reads.
Fields == {"videoData", "metadata", "generatedContent", "thumbnail", "generatedTitle",
           "uploadResult", "status", "errors", "errorSummary", "emailNotification"}

\* subscribes of Upload-To-YouTube: one invocation per delivered event.
UploadTriggers == {"file.uploaded", "thumbnail.image.generated", "final.title.generated"}

\* The emitters of error events: the thumbnail stage, the title stage and each
\* invocation of the upload stage (named by the topic that triggered it).
ErrSources == {"thumb", "title"} \cup UploadTriggers

\* The e-mail invocation started by the youtube.upload.completed event of the
\* upload invocation g, as an emitter of pipeline.error.
MailSlot(g) == "mail:" \o g
MailSources == {MailSlot(g) : g \in UploadTriggers}

\* Error events that reach the ErrorHandler from outside the modelled stages.
DirectSlots == {"e1", "e2"}

ErrSlots == ErrSources \cup MailSources \cup DirectSlots

Topics == {"file.uploaded", "prompts.generated", "thumbnail.image.generated",
           "final.title.generated", "youtube.upload.completed",
           "thumbnail.image.generation.error", "final.title.generation.error",
           "youtube.upload.error", "pipeline.error"}

\* HTTP status codes of a failed video-host call.  (An error without a code
\* is code 0; the upload stage meets one when no account is connected.)
HostErrorCodes == {403}

\* state.get(traceId, key) and state.set(traceId, key, value)
StateGet(t, k)    == store[t][k]
StateSet(t, k, v) == store' = [store EXCEPT ![t][k] = Some(v)]

\* emit({ topic, data: { traceId, ... } })
Emit(t, topic) == emitted' = [emitted EXCEPT ![t][topic] = @ + 1]

\* A status record { status, error?, failedStep? }; "" stands for an absent
\* string member (timestamps are left out).
Status(s)              == [status |-> s, error |-> "", failedStep |-> ""]
StatusFailed(s, e, fs) == [status |-> s, error |-> e, failedStep |-> fs]

\* Locals of a stage invocation that is not running.  `event` is the data of
\* the event that started the invocation; `title` is the upload stage's
\* videoTitle.  The last five members are history
\* of the invocation, not program state: how it returned ("success",
\* "error", "skipped", "rejected"), and how many times it has written the
\* trace's status, written its own stage-named field, emitted an event, and
\* called a service other than the state store.
NoLocals == [videoData |-> None, metadata |-> None, generatedTitle |-> None,
             thumbnail |-> None, error |-> "", result |-> "", email |-> "",
             title |-> "", event |-> None, outcome |-> "",
             nStatus |-> 0, nField |-> 0, nEmit |-> 0, nCalls |-> 0]
Proc(pc) == [pc |-> pc, l |-> NoLocals]

\* An invocation enqueued by the delivery of an event with data ev.
Queued(ev) == [pc |-> "queued", l |-> [NoLocals EXCEPT !.event = Some(ev)]]

\* The invocation p after it has returned, having emitted `emits` more
\* events: the values it read from the state store are gone.
Returned(p, outcome, emits) ==
  [pc |-> "done",
   l  |-> [p.l EXCEPT !.videoData = None, !.metadata = None, !.generatedTitle = None,
                      !.thumbnail = None, !.title = "", !.outcome = outcome, !.nEmit = @ + emits]]

\* The invocation p after an exception has left the handler.
Rejected(p) == [Returned(p, "rejected", 0) EXCEPT !.pc = "rejected"]

\* An ErrorHandler invocation that is not running; readFailed is history:
\* the invocation's read of `errors` threw.
ErrProcIdle == [pc |-> "idle", topic |-> "", error |-> "", step |-> "",
                errorLog |-> None, existingErrors |-> <<>>, readFailed |-> FALSE]

\* Variant of getFirstConnectedUser: the record updated longest ago.
getFirstConnectedUserOldest ==
  IF env.creds = {} THEN None
  ELSE Some(CHOOSE r \in env.creds : \A q \in env.creds : q.updatedAt >= r.updatedAt)

\* YouTubeToken.findOne({}).sort({ updatedAt: -1 }): the most recently
\* updated credential record, or null.
getFirstConnectedUser ==
  IF env.creds = {} THEN None
  ELSE Some(CHOOSE r \in env.creds : \A q \in env.creds : q.updatedAt <= r.updatedAt)

\* Variant of NormalizeEmail: the e-mail is used as given.
NormalizeEmailAsGiven(e) == e

\* email.toLowerCase().trim() over the e-mail spellings of the model.
NormalizeEmail(e) ==
  CASE e = " A@X.COM " -> "a@x.com"
    [] e = "A@x.com"   -> "a@x.com"
    [] OTHER           -> e

\* loadTokensForUser(email)
loadTokensForUser(e) ==
  LET rs == {r \in env.creds : r.email = NormalizeEmail(e)} IN
    IF rs = {} THEN None ELSE Some((CHOOSE r \in rs : TRUE).tokens)

(***************************************************************************)
(* The stages before prompts.generated (the upload endpoint and the        *)
(* prompt generation stage).  They write videoData, metadata and the       *)
(* status "uploading" and emit file.uploaded, then prompts.generated.      *)
(***************************************************************************)
VideoDataIn == [fileName |-> "clip.mp4"]
MetadataIn  == {[title |-> "My Video", autoGenerateTitle |-> FALSE],
                [title |-> "", autoGenerateTitle |-> TRUE]}
Inputs == {[videoData |-> None, metadata |-> None],
           [videoData |-> Some(VideoDataIn), metadata |-> None],
           [videoData |-> None, metadata |-> Some([title |-> "My Video", autoGenerateTitle |-> FALSE])]}
          \cup {[videoData |-> Some(VideoDataIn), metadata |-> Some(m)] : m \in MetadataIn}

FileUploaded(t, in) ==
  /\ upstream[t] = "none"
  /\ upstream' = [upstream EXCEPT ![t] = "uploaded"]
  /\ store' = [store EXCEPT ![t]["videoData"] = in.videoData,
                            ![t]["metadata"] = in.metadata,
                            ![t]["status"] = Some(Status("uploading"))]
  /\ Emit(t, "file.uploaded")
  /\ upload' = [upload EXCEPT ![t]["file.uploaded"] = Proc("queued")]
  /\ UNCHANGED <<pnf, sto, oauth, env, mail, thumb, title, errh, inserted>>
  /\ UNCHANGED watchVars

PromptsGenerated(t) ==
  /\ upstream[t] = "uploaded"
  /\ upstream' = [upstream EXCEPT ![t] = "prompted"]
  /\ Emit(t, "prompts.generated")
  /\ thumb' = [thumb EXCEPT ![t] = Proc("queued")]
  /\ title' = [title EXCEPT ![t] = Proc("queued")]
  /\ UNCHANGED <<pnf, sto, oauth, env, mail, store, upload, errh, inserted>>
  /\ UNCHANGED watchVars

\* Delivery of an error event to the ErrorHandler: the invocation for the
\* emitter `src` is enqueued with the event's topic and data.
EnqueueError(t, src, topic, error, step) ==
  errh' = [errh EXCEPT ![t][src] =
             [pc |-> "queued", topic |-> topic, error |-> error, step |-> step,
              errorLog |-> None, existingErrors |-> <<>>, readFailed |-> FALSE]]


(***************************************************************************)
(*       Generate-Thumbnail-Image  (events/03.1-generate-thumbnail)        *)
(***************************************************************************)
MsgNoKey  == "GEMINI_API_KEY environment variable is not set"
MsgNoData == "Video data or metadata not found in state"
MsgApi    == "generative call failed"
MsgStorage == "storage upload failed"

\* Handler start: the key check, then `await state.get(traceId, "videoData")`.
ThumbGetVideoData(t) ==
  /\ thumb[t].pc = "queued"
  /\ IF ~env.apiKey
       THEN thumb' = [thumb EXCEPT ![t].pc = "setFailed", ![t].l.error = MsgNoKey]
       ELSE thumb' = [thumb EXCEPT ![t].pc = "getMetadata",
                                   ![t].l.videoData = StateGet(t, "videoData")]
  /\ UNCHANGED <<pnf, sto, oauth, env, mail, store, title, upload, errh, emitted, inserted, upstream>>
  /\ UNCHANGED watchVars

\* `await state.get(traceId, "metadata")`, then the precondition check.
ThumbGetMetadata(t) ==
  /\ thumb[t].pc = "getMetadata"
  /\ LET md == StateGet(t, "metadata") IN
       IF ~IsSome(thumb[t].l.videoData) \/ ~IsSome(md)
         THEN thumb' = [thumb EXCEPT ![t].pc = "setFailed", ![t].l.error = MsgNoData]
         ELSE thumb' = [thumb EXCEPT ![t].pc = "setGenerating", ![t].l.metadata = md]
  /\ UNCHANGED <<pnf, sto, oauth, env, mail, store, title, upload, errh, emitted, inserted, upstream>>
  /\ UNCHANGED watchVars

\* `await state.set(traceId, "status", { status: "generating-thumbnail" })`
ThumbSetGenerating(t) ==
  /\ thumb[t].pc = "setGenerating"
  /\ StateSet(t, "status", Status("generating-thumbnail"))
  /\ thumb' = [thumb EXCEPT ![t].pc = "generate", ![t].l.nStatus = @ + 1]
  /\ UNCHANGED <<pnf, sto, oauth, env, mail, title, upload, errh, emitted, inserted, upstream>>
  /\ UNCHANGED watchVars

\* `await model.generateContent(...)` (lines 91-93) and the scan of the
\* answer for image data (lines 97-129): an image ("image"), no image
\* ("noimage"), or the call throws ("error").  l.result tells whether
\* thumbnailBuffer is set ("image") or null ("placeholder").
ThumbGenerate(t, outcome) ==
  /\ thumb[t].pc = "generate"
  /\ thumb' = [thumb EXCEPT
                 ![t].pc = CASE outcome = "image"   -> "uploadThumbnail"
                             [] outcome = "noimage" -> "describe"
                             [] OTHER               -> "setFailed",
                 ![t].l.result = CASE outcome = "image"   -> "image"
                                   [] outcome = "noimage" -> "placeholder"
                                   [] OTHER               -> @,
                 ![t].l.error = IF outcome = "error" THEN MsgApi ELSE @,
                 ![t].l.nCalls = @ + 1]
  /\ UNCHANGED <<pnf, sto, oauth, env, mail, store, title, upload, errh, emitted, inserted, upstream>>
  /\ UNCHANGED watchVars

\* No image: `await model.generateContent(...)` for a description (lines
\* 133-143); it answers or throws.
ThumbDescribe(t, ok) ==
  /\ thumb[t].pc = "describe"
  /\ thumb' = [thumb EXCEPT
                 ![t].pc = IF ok THEN "setThumbnail" ELSE "setFailed",
                 ![t].l.error = IF ok THEN @ ELSE MsgApi,
                 ![t].l.nCalls = @ + 1]
  /\ UNCHANGED <<pnf, sto, oauth, env, mail, store, title, upload, errh, emitted, inserted, upstream>>
  /\ UNCHANGED watchVars

\* An image: `await uploadThumbnail(thumbnailBuffer, thumbnailFormat)` (line
\* 176) stores it or throws.
ThumbUpload(t, ok) ==
  /\ thumb[t].pc = "uploadThumbnail"
  /\ thumb' = [thumb EXCEPT
                 ![t].pc = IF ok THEN "setThumbnail" ELSE "setFailed",
                 ![t].l.error = IF ok THEN @ ELSE MsgStorage,
                 ![t].l.nCalls = @ + 1]
  /\ UNCHANGED <<pnf, sto, oauth, env, mail, store, title, upload, errh, emitted, inserted, upstream>>
  /\ UNCHANGED watchVars

\* Variant of ThumbnailRecord: every record is that of a stored image.
ThumbnailRecordOfImage(result) ==
  [storageKey |-> "thumbnails/thumb.jpg", isPlaceholder |-> FALSE, base64 |-> ""]

\* The thumbnail record the stage stores.  It has no base64 member.
ThumbnailRecord(result) ==
  IF result = "image"
    THEN [storageKey |-> "thumbnails/thumb.jpg", isPlaceholder |-> FALSE, base64 |-> ""]
    ELSE [storageKey |-> "null", isPlaceholder |-> TRUE, base64 |-> ""]

\* `await state.set(traceId, "thumbnail", {...})` (lines 145-151 or 184-191)
ThumbSetThumbnail(t) ==
  /\ thumb[t].pc = "setThumbnail"
  /\ StateSet(t, "thumbnail", ThumbnailRecord(thumb[t].l.result))
  /\ thumb' = [thumb EXCEPT ![t].pc = "setStatus", ![t].l.nField = @ + 1]
  /\ UNCHANGED <<pnf, sto, oauth, env, mail, title, upload, errh, emitted, inserted, upstream>>
  /\ UNCHANGED watchVars

\* `await state.set(traceId, "status", ...)` (lines 153-156 or 193-196)
ThumbSetStatus(t) ==
  /\ thumb[t].pc = "setStatus"
  /\ StateSet(t, "status",
              Status(IF thumb[t].l.result = "image" THEN "thumbnail-generated"
                     ELSE "thumbnail-description-generated"))
  /\ thumb' = [thumb EXCEPT ![t].pc = "emit", ![t].l.nStatus = @ + 1]
  /\ UNCHANGED <<pnf, sto, oauth, env, mail, title, upload, errh, emitted, inserted, upstream>>
  /\ UNCHANGED watchVars

\* Variant of ThumbEmit: Upload-To-YouTube does not subscribe to
\* thumbnail.image.generated, so the event starts no invocation.
ThumbEmitNotDelivered(t) ==
  /\ thumb[t].pc = "emit"
  /\ Emit(t, "thumbnail.image.generated")
  /\ thumb' = [thumb EXCEPT ![t] = Returned(@, "success", 1)]
  /\ UNCHANGED <<pnf, sto, oauth, env, mail, store, title, upload, errh, inserted, upstream>>
  /\ UNCHANGED watchVars

\* `await emit({ topic: "thumbnail.image.generated", data: { traceId, ...,
\* hasImage } })` (lines 160-169 or 204-212): the event is delivered to
\* Upload-To-YouTube.
ThumbEmit(t) ==
  /\ thumb[t].pc = "emit"
  /\ Emit(t, "thumbnail.image.generated")
  /\ upload' = [upload EXCEPT ![t]["thumbnail.image.generated"] =
                  Queued([hasImage |-> thumb[t].l.result = "image"])]
  /\ thumb' = [thumb EXCEPT ![t] = Returned(@, "success", 1)]
  /\ UNCHANGED <<pnf, sto, oauth, env, mail, store, title, errh, inserted, upstream>>
  /\ UNCHANGED watchVars

\* catch: `await state.set(traceId, "status", { status:
\* "thumbnail-generation-failed", error })`
ThumbSetFailed(t) ==
  /\ thumb[t].pc = "setFailed"
  /\ StateSet(t, "status", StatusFailed("thumbnail-generation-failed", thumb[t].l.error, ""))
  /\ thumb' = [thumb EXCEPT ![t].pc = "emitError", ![t].l.nStatus = @ + 1]
  /\ UNCHANGED <<pnf, sto, oauth, env, mail, title, upload, errh, emitted, inserted, upstream>>
  /\ UNCHANGED watchVars

\* catch: `await emit({ topic: "thumbnail.image.generation.error", data:
\* { traceId, error, step: "generate-thumbnail" } })`
ThumbEmitError(t) ==
  /\ thumb[t].pc = "emitError"
  /\ Emit(t, "thumbnail.image.generation.error")
  /\ EnqueueError(t, "thumb", "thumbnail.image.generation.error",
                  thumb[t].l.error, "generate-thumbnail")
  /\ thumb' = [thumb EXCEPT ![t] = Returned(@, "error", 1)]
  /\ UNCHANGED <<pnf, sto, oauth, env, mail, store, title, upload, inserted, upstream>>
  /\ UNCHANGED watchVars

(***************************************************************************)
(*          Generate-Video-Title  (events/03.2-generate-title)             *)
(***************************************************************************)
AiTitle == "AI Title"

\* Handler start: the key check, then `await state.get(traceId, "videoData")`.
TitleGetVideoData(t) ==
  /\ title[t].pc = "queued"
  /\ IF ~env.apiKey
       THEN title' = [title EXCEPT ![t].pc = "setFailed", ![t].l.error = MsgNoKey]
       ELSE title' = [title EXCEPT ![t].pc = "getMetadata",
                                   ![t].l.videoData = StateGet(t, "videoData")]
  /\ UNCHANGED <<pnf, sto, oauth, env, mail, store, thumb, upload, errh, emitted, inserted, upstream>>
  /\ UNCHANGED watchVars

\* `await state.get(traceId, "metadata")`
TitleGetMetadata(t) ==
  /\ title[t].pc = "getMetadata"
  /\ title' = [title EXCEPT ![t].pc = "getGeneratedContent",
                            ![t].l.metadata = StateGet(t, "metadata")]
  /\ UNCHANGED <<pnf, sto, oauth, env, mail, store, thumb, upload, errh, emitted, inserted, upstream>>
  /\ UNCHANGED watchVars

\* Variant of TitleGetGeneratedContent: the user's title is not looked at.
TitleGetGeneratedContentAlwaysAi(t) ==
  /\ title[t].pc = "getGeneratedContent"
  /\ IF ~IsSome(title[t].l.videoData) \/ ~IsSome(title[t].l.metadata)
       THEN title' = [title EXCEPT ![t].pc = "setFailed", ![t].l.error = MsgNoData]
       ELSE title' = [title EXCEPT ![t].pc = "setGenerating"]
  /\ UNCHANGED <<pnf, sto, oauth, env, mail, store, thumb, upload, errh, emitted, inserted, upstream>>
  /\ UNCHANGED watchVars

\* `await state.get(traceId, "generatedContent")` (used for the prompt only),
\* then the precondition check and the choice between the user's title and
\* the AI call.
TitleGetGeneratedContent(t) ==
  /\ title[t].pc = "getGeneratedContent"
  /\ LET vd == title[t].l.videoData
         md == title[t].l.metadata
     IN  IF ~IsSome(vd) \/ ~IsSome(md)
           THEN title' = [title EXCEPT ![t].pc = "setFailed", ![t].l.error = MsgNoData]
           ELSE IF ~Val(md).autoGenerateTitle /\ Val(md).title # ""
             THEN title' = [title EXCEPT ![t].pc = "setUserTitle",
                                         ![t].l.result = Val(md).title]
             ELSE title' = [title EXCEPT ![t].pc = "setGenerating"]
  /\ UNCHANGED <<pnf, sto, oauth, env, mail, store, thumb, upload, errh, emitted, inserted, upstream>>
  /\ UNCHANGED watchVars

\* Variant of TitleSetUserTitle: the event is emitted without the write.
TitleSetUserTitleSkipped(t) ==
  /\ title[t].pc = "setUserTitle"
  /\ title' = [title EXCEPT ![t].pc = "emit"]
  /\ UNCHANGED <<pnf, sto, oauth, env, mail, store, thumb, upload, errh, emitted, inserted, upstream>>
  /\ UNCHANGED watchVars

\* `await state.set(traceId, "generatedTitle", { title: metadata.title,
\* isGenerated: false })` (lines 41-45); no status is written on this path.
TitleSetUserTitle(t) ==
  /\ title[t].pc = "setUserTitle"
  /\ StateSet(t, "generatedTitle", [title |-> title[t].l.result, isGenerated |-> FALSE])
  /\ title' = [title EXCEPT ![t].pc = "emit", ![t].l.nField = @ + 1]
  /\ UNCHANGED <<pnf, sto, oauth, env, mail, thumb, upload, errh, emitted, inserted, upstream>>
  /\ UNCHANGED watchVars

\* `await state.set(traceId, "status", { status: "generating-title" })`
TitleSetGenerating(t) ==
  /\ title[t].pc = "setGenerating"
  /\ StateSet(t, "status", Status("generating-title"))
  /\ title' = [title EXCEPT ![t].pc = "generate", ![t].l.nStatus = @ + 1]
  /\ UNCHANGED <<pnf, sto, oauth, env, mail, thumb, upload, errh, emitted, inserted, upstream>>
  /\ UNCHANGED watchVars

\* `await openai.chat.completions.create(...)` and the parsing of its answer
\* (lines 60-179): a recommended title, or an error (the call throws, the
\* answer is empty, does not parse, or holds no title).
TitleGenerate(t, ok) ==
  /\ title[t].pc = "generate"
  /\ IF ok
       THEN title' = [title EXCEPT ![t].pc = "setGeneratedTitle", ![t].l.result = AiTitle,
                                   ![t].l.nCalls = @ + 1]
       ELSE title' = [title EXCEPT ![t].pc = "setFailed", ![t].l.error = MsgApi,
                                   ![t].l.nCalls = @ + 1]
  /\ UNCHANGED <<pnf, sto, oauth, env, mail, store, thumb, upload, errh, emitted, inserted, upstream>>
  /\ UNCHANGED watchVars

\* `await state.set(traceId, "generatedTitle", { title: recommendedTitle,
\* ..., isGenerated: true })` (lines 188-197)
TitleSetGeneratedTitle(t) ==
  /\ title[t].pc = "setGeneratedTitle"
  /\ StateSet(t, "generatedTitle", [title |-> title[t].l.result, isGenerated |-> TRUE])
  /\ title' = [title EXCEPT ![t].pc = "setMetadata", ![t].l.nField = @ + 1]
  /\ UNCHANGED <<pnf, sto, oauth, env, mail, thumb, upload, errh, emitted, inserted, upstream>>
  /\ UNCHANGED watchVars

\* Variant of TitleSetMetadata: the record is stored under "videoData".
TitleSetMetadataAsVideoData(t) ==
  /\ title[t].pc = "setMetadata"
  /\ StateSet(t, "videoData", [Val(title[t].l.metadata) EXCEPT !.title = title[t].l.result])
  /\ title' = [title EXCEPT ![t].pc = "setStatus"]
  /\ UNCHANGED <<pnf, sto, oauth, env, mail, thumb, upload, errh, emitted, inserted, upstream>>
  /\ UNCHANGED watchVars

\* `await state.set(traceId, "metadata", { ...metadata, title:
\* recommendedTitle })` (lines 199-202): the metadata read earlier, with the
\* title replaced.
TitleSetMetadata(t) ==
  /\ title[t].pc = "setMetadata"
  /\ StateSet(t, "metadata", [Val(title[t].l.metadata) EXCEPT !.title = title[t].l.result])
  /\ title' = [title EXCEPT ![t].pc = "setStatus"]
  /\ UNCHANGED <<pnf, sto, oauth, env, mail, thumb, upload, errh, emitted, inserted, upstream>>
  /\ UNCHANGED watchVars

\* `await state.set(traceId, "status", { status: "title-generated" })`
TitleSetStatus(t) ==
  /\ title[t].pc = "setStatus"
  /\ StateSet(t, "status", Status("title-generated"))
  /\ title' = [title EXCEPT ![t].pc = "emit", ![t].l.nStatus = @ + 1]
  /\ UNCHANGED <<pnf, sto, oauth, env, mail, thumb, upload, errh, emitted, inserted, upstream>>
  /\ UNCHANGED watchVars

\* `await emit({ topic: "final.title.generated", data: { traceId, title,
\* ... } })` (lines 47-50 or 209-218), the title being metadata.title or the
\* recommended title: the event is delivered to Upload-To-YouTube.
TitleEmit(t) ==
  /\ title[t].pc = "emit"
  /\ Emit(t, "final.title.generated")
  /\ upload' = [upload EXCEPT ![t]["final.title.generated"] =
                  Queued([title |-> title[t].l.result])]
  /\ title' = [title EXCEPT ![t] = Returned(@, "success", 1)]
  /\ UNCHANGED <<pnf, sto, oauth, env, mail, store, thumb, errh, inserted, upstream>>
  /\ UNCHANGED watchVars

\* catch: `await state.set(traceId, "status", { status:
\* "title-generation-failed", error })`
TitleSetFailed(t) ==
  /\ title[t].pc = "setFailed"
  /\ StateSet(t, "status", StatusFailed("title-generation-failed", title[t].l.error, ""))
  /\ title' = [title EXCEPT ![t].pc = "emitError", ![t].l.nStatus = @ + 1]
  /\ UNCHANGED <<pnf, sto, oauth, env, mail, thumb, upload, errh, emitted, inserted, upstream>>
  /\ UNCHANGED watchVars

\* catch: `await emit({ topic: "final.title.generation.error", data:
\* { traceId, error, step: "generate-title" } })`
TitleEmitError(t) ==
  /\ title[t].pc = "emitError"
  /\ Emit(t, "final.title.generation.error")
  /\ EnqueueError(t, "title", "final.title.generation.error",
                  title[t].l.error, "generate-title")
  /\ title' = [title EXCEPT ![t] = Returned(@, "error", 1)]
  /\ UNCHANGED <<pnf, sto, oauth, env, mail, store, thumb, upload, inserted, upstream>>
  /\ UNCHANGED watchVars


(***************************************************************************)
(*           Upload-To-YouTube  (events/04-upload-on-youtube)              *)
(* One invocation per delivered event; g names the triggering topic.       *)
(***************************************************************************)
MsgNoVideoData == "Video data not found in state"
MsgNoMetadata  == "Metadata not found in state"
MsgNoUser      == "No YouTube account connected. Please connect your account first."
MsgNoTokens    == "User not authenticated"
MsgHost        == "host error"

\* Variant of UploadErrorMessage: the failure's message is used as it is.
UploadErrorMessageVerbatim(code, message) == message

\* catch, lines 196-204: the message stored and sent for a failure with the
\* given code (0: no code) and message.
UploadErrorMessage(code, message) ==
  CASE code = 403 -> "YouTube API quota exceeded or permission denied"
    [] code = 401 -> "YouTube authentication expired. Please reconnect your account."
    [] code = 400 -> "Invalid request: " \o message
    [] OTHER      -> message

UpSet(t, g, pc)       == upload' = [upload EXCEPT ![t][g].pc = pc]
UpFail(t, g, code, m) == upload' = [upload EXCEPT ![t][g].pc = "setFailed",
                                                   ![t][g].l.error = UploadErrorMessage(code, m)]
\* The same two steps after a call to a service other than the state store.
UpCalled(t, g, pc)         == upload' = [upload EXCEPT ![t][g].pc = pc,
                                                        ![t][g].l.nCalls = @ + 1]
UpCallFails(t, g, code, m) == upload' = [upload EXCEPT ![t][g].pc = "setFailed",
                                                        ![t][g].l.error = UploadErrorMessage(code, m),
                                                        ![t][g].l.nCalls = @ + 1]
\* A step that writes the status (k = "nStatus") or uploadResult ("nField").
UpWrote(t, g, pc, k) == upload' = [upload EXCEPT ![t][g].pc = pc, ![t][g].l[k] = @ + 1]

\* `await state.get(traceId, "videoData")`
UploadGetVideoData(t, g) ==
  /\ upload[t][g].pc = "queued"
  /\ upload' = [upload EXCEPT ![t][g].pc = "getMetadata",
                              ![t][g].l.videoData = StateGet(t, "videoData")]
  /\ UNCHANGED <<pnf, sto, oauth, env, mail, store, thumb, title, errh, emitted, inserted, upstream>>
  /\ UNCHANGED watchVars

\* `await state.get(traceId, "metadata")`
UploadGetMetadata(t, g) ==
  /\ upload[t][g].pc = "getMetadata"
  /\ upload' = [upload EXCEPT ![t][g].pc = "getGeneratedTitle",
                              ![t][g].l.metadata = StateGet(t, "metadata")]
  /\ UNCHANGED <<pnf, sto, oauth, env, mail, store, thumb, title, errh, emitted, inserted, upstream>>
  /\ UNCHANGED watchVars

\* `await state.get(traceId, "generatedTitle")`
UploadGetGeneratedTitle(t, g) ==
  /\ upload[t][g].pc = "getGeneratedTitle"
  /\ upload' = [upload EXCEPT ![t][g].pc = "getThumbnail",
                              ![t][g].l.generatedTitle = StateGet(t, "generatedTitle")]
  /\ UNCHANGED <<pnf, sto, oauth, env, mail, store, thumb, title, errh, emitted, inserted, upstream>>
  /\ UNCHANGED watchVars

\* Variant of UploadGetThumbnail: only videoData is checked.
UploadGetThumbnailNoMetadataCheck(t, g) ==
  /\ upload[t][g].pc = "getThumbnail"
  /\ IF ~IsSome(upload[t][g].l.videoData)
       THEN UpFail(t, g, 0, MsgNoVideoData)
       ELSE upload' = [upload EXCEPT ![t][g].pc = "setUploading",
                                     ![t][g].l.thumbnail = StateGet(t, "thumbnail")]
  /\ UNCHANGED <<pnf, sto, oauth, env, mail, store, thumb, title, errh, emitted, inserted, upstream>>
  /\ UNCHANGED watchVars

\* `await state.get(traceId, "thumbnail")`, then the two precondition checks.
UploadGetThumbnail(t, g) ==
  /\ upload[t][g].pc = "getThumbnail"
  /\ IF ~IsSome(upload[t][g].l.videoData)
       THEN UpFail(t, g, 0, MsgNoVideoData)
       ELSE IF ~IsSome(upload[t][g].l.metadata)
         THEN UpFail(t, g, 0, MsgNoMetadata)
         ELSE upload' = [upload EXCEPT ![t][g].pc = "setUploading",
                                       ![t][g].l.thumbnail = StateGet(t, "thumbnail")]
  /\ UNCHANGED <<pnf, sto, oauth, env, mail, store, thumb, title, errh, emitted, inserted, upstream>>
  /\ UNCHANGED watchVars

\* `await state.set(traceId, "status", { status: "uploading-to-youtube" })`
UploadSetUploading(t, g) ==
  /\ upload[t][g].pc = "setUploading"
  /\ StateSet(t, "status", Status("uploading-to-youtube"))
  /\ UpWrote(t, g, "getUser", "nStatus")
  /\ UNCHANGED <<pnf, sto, oauth, env, mail, thumb, title, errh, emitted, inserted, upstream>>
  /\ UNCHANGED watchVars

\* `await getFirstConnectedUser()`
UploadGetUser(t, g) ==
  /\ upload[t][g].pc = "getUser"
  /\ LET u == getFirstConnectedUser IN
       IF ~IsSome(u)
         THEN UpCallFails(t, g, 0, MsgNoUser)
         ELSE upload' = [upload EXCEPT ![t][g].pc = "getClient",
                                       ![t][g].l.email = Val(u).email,
                                       ![t][g].l.nCalls = @ + 1]
  /\ UNCHANGED <<pnf, sto, oauth, env, mail, store, thumb, title, errh, emitted, inserted, upstream>>
  /\ UNCHANGED watchVars

\* Variant of VideoTitle: the generated title is not looked at.
VideoTitleWithoutGenerated(l) ==
  IF IsSome(l.metadata) /\ Val(l.metadata).title # ""
    THEN Val(l.metadata).title
    ELSE Val(l.videoData).fileName

\* `generatedTitle?.title || metadata.title || videoData.fileName` (line 68)
\* over the values the invocation read: an absent or empty title falls
\* through to the next one.
VideoTitle(l) ==
  IF IsSome(l.generatedTitle) /\ Val(l.generatedTitle).title # ""
    THEN Val(l.generatedTitle).title
    ELSE IF IsSome(l.metadata) /\ Val(l.metadata).title # ""
      THEN Val(l.metadata).title
      ELSE Val(l.videoData).fileName

\* The request for youtube.videos.insert is prepared (lines 64-87).
UpPrepared(t, g) == upload' = [upload EXCEPT ![t][g].pc = "insert",
                                             ![t][g].l.title = VideoTitle(upload[t][g].l),
                                             ![t][g].l.nCalls = @ + 1]

\* Variant of UploadGetClient: the client is built without looking for the
\* stored tokens.
UploadGetClientUnchecked(t, g) ==
  /\ upload[t][g].pc = "getClient"
  /\ UpPrepared(t, g)
  /\ UNCHANGED <<pnf, sto, oauth, env, mail, store, thumb, title, errh, emitted, inserted, upstream>>
  /\ UNCHANGED watchVars

\* `await getAuthenticatedClient(connectedUser.email)`: throws when no tokens
\* are stored for the e-mail; then the request is prepared (lines 64-87).
UploadGetClient(t, g) ==
  /\ upload[t][g].pc = "getClient"
  /\ IF ~IsSome(loadTokensForUser(upload[t][g].l.email))
       THEN UpCallFails(t, g, 0, MsgNoTokens)
       ELSE UpPrepared(t, g)
  /\ UNCHANGED <<pnf, sto, oauth, env, mail, store, thumb, title, errh, emitted, inserted, upstream>>
  /\ UNCHANGED watchVars

\* thumbnail?.base64 && videoId (line 123)
HasThumbnailImage(th) == IsSome(th) /\ Val(th).base64 # ""

\* `await youtube.videos.insert(...)` with snippet.title = videoTitle
\* succeeds: the video exists on the host.
UploadInsert(t, g) ==
  /\ upload[t][g].pc = "insert"
  /\ inserted' = [inserted EXCEPT ![t] = @ + 1]
  /\ IF HasThumbnailImage(upload[t][g].l.thumbnail)
       THEN UpCalled(t, g, "thumbnailsSet")
       ELSE UpCalled(t, g, "setResult")
  /\ UNCHANGED <<pnf, sto, oauth, env, mail, store, thumb, title, errh, emitted, upstream>>
  /\ UNCHANGED watchVars

\* `await youtube.videos.insert(...)` throws an error with the given code.
UploadInsertFails(t, g, code) ==
  /\ upload[t][g].pc = "insert"
  /\ UpCallFails(t, g, code, MsgHost)
  /\ UNCHANGED <<pnf, sto, oauth, env, mail, store, thumb, title, errh, emitted, inserted, upstream>>
  /\ UNCHANGED watchVars

\* `await youtube.thumbnails.set(...)` (lines 124-149): a failure is caught
\* and only logged.
UploadThumbnailsSet(t, g, ok) ==
  /\ upload[t][g].pc = "thumbnailsSet"
  /\ upload' = [upload EXCEPT ![t][g].pc = "setResult",
                              ![t][g].l.result = IF ok THEN "thumbnailUploaded" ELSE "",
                              ![t][g].l.nCalls = @ + 1]
  /\ UNCHANGED <<pnf, sto, oauth, env, mail, store, thumb, title, errh, emitted, inserted, upstream>>
  /\ UNCHANGED watchVars

\* `await state.set(traceId, "uploadResult", {...})`
UploadSetResult(t, g) ==
  /\ upload[t][g].pc = "setResult"
  /\ StateSet(t, "uploadResult",
              [videoId |-> "vid",
               thumbnailUploaded |-> (upload[t][g].l.result = "thumbnailUploaded")])
  /\ UpWrote(t, g, "setCompleted", "nField")
  /\ UNCHANGED <<pnf, sto, oauth, env, mail, thumb, title, errh, emitted, inserted, upstream>>
  /\ UNCHANGED watchVars

\* Variant of UploadSetCompleted: the final status is not written.
UploadSetCompletedSkipped(t, g) ==
  /\ upload[t][g].pc = "setCompleted"
  /\ UpSet(t, g, "emit")
  /\ UNCHANGED <<pnf, sto, oauth, env, mail, store, thumb, title, errh, emitted, inserted, upstream>>
  /\ UNCHANGED watchVars

\* `await state.set(traceId, "status", { status: "completed", ... })`
UploadSetCompleted(t, g) ==
  /\ upload[t][g].pc = "setCompleted"
  /\ StateSet(t, "status", Status("completed"))
  /\ UpWrote(t, g, "emit", "nStatus")
  /\ UNCHANGED <<pnf, sto, oauth, env, mail, thumb, title, errh, emitted, inserted, upstream>>
  /\ UNCHANGED watchVars

\* `await emit({ topic: "youtube.upload.completed", data: { traceId,
\* videoId, title: videoTitle, ... } })`: the event is delivered to "Send
\* the success email".
UploadEmit(t, g) ==
  /\ upload[t][g].pc = "emit"
  /\ Emit(t, "youtube.upload.completed")
  /\ mail' = [mail EXCEPT ![t][g] = Queued([videoId |-> "vid",
                                             title |-> upload[t][g].l.title])]
  /\ upload' = [upload EXCEPT ![t][g] = Returned(@, "success", 1)]
  /\ UNCHANGED <<pnf, sto, oauth, env, store, thumb, title, errh, inserted, upstream>>
  /\ UNCHANGED watchVars

\* catch: `await state.set(traceId, "status", { status: "upload-failed",
\* error: errorMessage })`
UploadSetFailed(t, g) ==
  /\ upload[t][g].pc = "setFailed"
  /\ StateSet(t, "status", StatusFailed("upload-failed", upload[t][g].l.error, ""))
  /\ UpWrote(t, g, "emitError", "nStatus")
  /\ UNCHANGED <<pnf, sto, oauth, env, mail, thumb, title, errh, emitted, inserted, upstream>>
  /\ UNCHANGED watchVars

\* catch: `await emit({ topic: "youtube.upload.error", data: { traceId,
\* error: errorMessage } })`: the event carries no step.
UploadEmitError(t, g) ==
  /\ upload[t][g].pc = "emitError"
  /\ Emit(t, "youtube.upload.error")
  /\ EnqueueError(t, g, "youtube.upload.error", upload[t][g].l.error, "")
  /\ upload' = [upload EXCEPT ![t][g] = Returned(@, "error", 1)]
  /\ UNCHANGED <<pnf, sto, oauth, env, mail, store, thumb, title, inserted, upstream>>
  /\ UNCHANGED watchVars

(***************************************************************************)
(*               ErrorHandler  (events/error-handeler)                     *)
(* One invocation per delivered error event; s names the emitter.          *)
(***************************************************************************)
\* ERROR_MESSAGES[topic] || "An unexpected error occurred"
FriendlyMessage(topic) ==
  CASE topic = "file.upload.error"                -> "Failed to upload video file"
    [] topic = "prompts.generation.error"         -> "Failed to generate AI prompts"
    [] topic = "thumbnail.image.generation.error" -> "Failed to generate thumbnail image"
    [] topic = "final.title.generation.error"     -> "Failed to generate final title"
    [] topic = "youtube.upload.error"             -> "Failed to upload video to YouTube"
    [] topic = "pipeline.error"                   -> "Pipeline encountered an error"
    [] OTHER                                      -> "An unexpected error occurred"

\* topic.replace(".error", "")
StripError(topic) ==
  CASE topic = "file.upload.error"                -> "file.upload"
    [] topic = "prompts.generation.error"         -> "prompts.generation"
    [] topic = "thumbnail.image.generation.error" -> "thumbnail.image.generation"
    [] topic = "final.title.generation.error"     -> "final.title.generation"
    [] topic = "youtube.upload.error"             -> "youtube.upload"
    [] topic = "pipeline.error"                   -> "pipeline"
    [] OTHER                                      -> topic

\* a || b on strings
OrElse(a, b) == IF a # "" THEN a ELSE b

\* lines 64-71 (the timestamp and details are left out)
ErrorLog(t, e) ==
  [traceId |-> t, step |-> OrElse(e.step, StripError(e.topic)),
   error |-> OrElse(e.error, FriendlyMessage(e.topic)), resolved |-> FALSE]

\* Variant of ErrGetErrors: the new entry is put in front of the list.
ErrGetErrorsPrepends(t, s) ==
  /\ errh[t][s].pc = "queued"
  /\ LET log      == ErrorLog(t, errh[t][s])
         got      == StateGet(t, "errors")
         existing == IF IsSome(got) THEN Val(got) ELSE <<>>
     IN  errh' = [errh EXCEPT ![t][s].pc = "setErrors",
                              ![t][s].errorLog = Some(log),
                              ![t][s].existingErrors = <<log>> \o existing]
  /\ UNCHANGED <<pnf, sto, oauth, env, mail, store, thumb, title, upload, emitted, inserted, upstream>>
  /\ UNCHANGED watchVars

\* Handler start, then `existingErrors = (await state.get(traceId, "errors"))
\* || []` and `existingErrors.push(errorLog)` on the invocation's own copy.
ErrGetErrors(t, s) ==
  /\ errh[t][s].pc = "queued"
  /\ LET log      == ErrorLog(t, errh[t][s])
         got      == StateGet(t, "errors")
         existing == IF IsSome(got) THEN Val(got) ELSE <<>>
     IN  errh' = [errh EXCEPT ![t][s].pc = "setErrors",
                              ![t][s].errorLog = Some(log),
                              ![t][s].existingErrors = Append(existing, log)]
  /\ UNCHANGED <<pnf, sto, oauth, env, mail, store, thumb, title, upload, emitted, inserted, upstream>>
  /\ UNCHANGED watchVars

\* `await state.set(traceId, "errors", existingErrors)`
ErrSetErrors(t, s) ==
  /\ errh[t][s].pc = "setErrors"
  /\ StateSet(t, "errors", errh[t][s].existingErrors)
  /\ errh' = [errh EXCEPT ![t][s].pc = "setStatus"]
  /\ UNCHANGED <<pnf, sto, oauth, env, mail, thumb, title, upload, emitted, inserted, upstream>>
  /\ UNCHANGED watchVars

\* Variant of ErrSetStatus: the error is always the topic's message.
ErrSetStatusTopicMessage(t, s) ==
  /\ errh[t][s].pc = "setStatus"
  /\ StateSet(t, "status",
              StatusFailed("failed", FriendlyMessage(errh[t][s].topic),
                           OrElse(errh[t][s].step, errh[t][s].topic)))
  /\ errh' = [errh EXCEPT ![t][s].pc = "setSummary"]
  /\ UNCHANGED <<pnf, sto, oauth, env, mail, thumb, title, upload, emitted, inserted, upstream>>
  /\ UNCHANGED watchVars

\* `await state.set(traceId, "status", { status: "failed", error, failedStep })`
ErrSetStatus(t, s) ==
  /\ errh[t][s].pc = "setStatus"
  /\ StateSet(t, "status",
              StatusFailed("failed",
                           OrElse(errh[t][s].error, FriendlyMessage(errh[t][s].topic)),
                           OrElse(errh[t][s].step, errh[t][s].topic)))
  /\ errh' = [errh EXCEPT ![t][s].pc = "setSummary"]
  /\ UNCHANGED <<pnf, sto, oauth, env, mail, thumb, title, upload, emitted, inserted, upstream>>
  /\ UNCHANGED watchVars

\* `await state.set(traceId, "errorSummary", { totalErrors:
\* existingErrors.length, lastError: errorLog })`; the handler returns (the
\* record keeps the event it handled).
ErrSetSummary(t, s) ==
  /\ errh[t][s].pc = "setSummary"
  /\ StateSet(t, "errorSummary",
              [totalErrors |-> Len(errh[t][s].existingErrors),
               lastError |-> Val(errh[t][s].errorLog)])
  /\ errh' = [errh EXCEPT ![t][s].pc = "done", ![t][s].errorLog = None,
                           ![t][s].existingErrors = <<>>]
  /\ UNCHANGED <<pnf, sto, oauth, env, mail, thumb, title, upload, emitted, inserted, upstream>>
  /\ UNCHANGED watchVars

\* Data of error events as the ErrorHandler may receive them; "" is an absent
\* member.  The last one is an undefined payload without an event topic.
ErrPayloads ==
  {[topic |-> "youtube.upload.error", traceId |-> "t1", jobId |-> "", error |-> "quota", step |-> ""],
   [topic |-> "pipeline.error", traceId |-> "t1", jobId |-> "", error |-> "mail", step |-> "send-email"],
   [topic |-> "file.upload.error", traceId |-> "", jobId |-> "j1", error |-> "", step |-> ""],
   [topic |-> "", traceId |-> "", jobId |-> "", error |-> "", step |-> ""]}

\* Variant of ResolveTraceId: every event is filed under "unknown".
ResolveTraceIdShared(ev) == "unknown"

\* lines 51-52: topic = event?.topic || "unknown"; traceId =
\* eventData?.traceId || eventData?.jobId || "unknown"
ResolveTopic(ev)   == OrElse(ev.topic, "unknown")
ResolveTraceId(ev) == OrElse(ev.traceId, OrElse(ev.jobId, "unknown"))

\* An error event with data ev is delivered: the invocation s starts at lines
\* 51-52.
ErrorEvent(s, ev) ==
  /\ \A t \in TraceIds : errh[t][s].pc = "idle"
  /\ EnqueueError(ResolveTraceId(ev), s, ResolveTopic(ev), ev.error, ev.step)
  /\ UNCHANGED <<pnf, sto, oauth, env, mail, store, thumb, title, upload, emitted, inserted, upstream>>
  /\ UNCHANGED watchVars

\* `await state.get(traceId, "errors")` throws: the inner catch (lines 75-77)
\* sets existingErrors = [], then the entry is pushed.
ErrGetThrows(t, s) ==
  /\ errh[t][s].pc = "queued"
  /\ faults < MaxFaults
  /\ faults' = faults + 1
  /\ LET log == ErrorLog(t, errh[t][s])
     IN  errh' = [errh EXCEPT ![t][s].pc = "setErrors",
                              ![t][s].errorLog = Some(log),
                              ![t][s].existingErrors = <<log>>,
                              ![t][s].readFailed = TRUE]
  /\ UNCHANGED <<watcherInitialized, watchers, knownFiles, cron, adds, detected>>
  /\ UNCHANGED <<pnf, sto, oauth, env, mail, store, thumb, title, upload, emitted, inserted, upstream>>

\* An exception leaves the ErrorHandler (no catch around the handler body).
ErrSetEscapes(t, s) ==
  /\ errh[t][s].pc \in {"setErrors", "setStatus", "setSummary"}
  /\ faults < MaxFaults
  /\ faults' = faults + 1
  /\ errh' = [errh EXCEPT ![t][s] = [ErrProcIdle EXCEPT !.pc = "rejected"]]
  /\ UNCHANGED <<watcherInitialized, watchers, knownFiles, cron, adds, detected>>
  /\ UNCHANGED <<pnf, sto, oauth, env, mail, store, thumb, title, upload, emitted, inserted, upstream>>

\* One of the three `await state.set(...)` throws: the outer catch (lines
\* 157-164) logs the failure and the handler returns.
ErrSetThrows(t, s) ==
  /\ errh[t][s].pc \in {"setErrors", "setStatus", "setSummary"}
  /\ faults < MaxFaults
  /\ faults' = faults + 1
  /\ errh' = [errh EXCEPT ![t][s] = [ErrProcIdle EXCEPT !.pc = "caught"]]
  /\ UNCHANGED <<watcherInitialized, watchers, knownFiles, cron, adds, detected>>
  /\ UNCHANGED <<pnf, sto, oauth, env, mail, store, thumb, title, upload, emitted, inserted, upstream>>

(***************************************************************************)
(*            "Send the success email"  (unnamed/part_001)                 *)
(* One invocation per youtube.upload.completed event; g names the upload   *)
(* invocation that emitted it.                                             *)
(***************************************************************************)
MsgMail == "Failed to send email"

\* `await state.get(traceId, "uploadResult")` (used for the text of the mail)
MailGetUploadResult(t, g) ==
  /\ mail[t][g].pc = "queued"
  /\ mail' = [mail EXCEPT ![t][g].pc = "getUser"]
  /\ UNCHANGED <<pnf, sto, oauth, env, store, thumb, title, upload, errh, emitted, inserted, upstream>>
  /\ UNCHANGED watchVars

\* `await getFirstConnectedUser()`; the handler returns without a word when
\* no account is connected (lines 48-51) or Brevo is not configured (60-63).
MailGetUser(t, g) ==
  /\ mail[t][g].pc = "getUser"
  /\ LET u == getFirstConnectedUser IN
       IF ~IsSome(u) \/ ~env.brevo
         THEN mail' = [mail EXCEPT ![t][g] = Returned(@, "skipped", 0)]
         ELSE mail' = [mail EXCEPT ![t][g].pc = "fetch", ![t][g].l.email = Val(u).email,
                                   ![t][g].l.nCalls = @ + 1]
  /\ UNCHANGED <<pnf, sto, oauth, env, store, thumb, title, upload, errh, emitted, inserted, upstream>>
  /\ UNCHANGED watchVars

\* Variant of MailFetch: the answer of the mail API is not looked at.
MailFetchUnchecked(t, g, ok) ==
  /\ mail[t][g].pc = "fetch"
  /\ mail' = [mail EXCEPT ![t][g].pc = "setSent", ![t][g].l.nCalls = @ + 1]
  /\ UNCHANGED <<pnf, sto, oauth, env, store, thumb, title, upload, errh, emitted, inserted, upstream>>
  /\ UNCHANGED watchVars

\* `await fetch("https://api.brevo.com/v3/smtp/email", ...)`: the mail is
\* accepted, or fetch throws or answers with !response.ok (lines 197-200).
MailFetch(t, g, ok) ==
  /\ mail[t][g].pc = "fetch"
  /\ mail' = [mail EXCEPT ![t][g].pc = IF ok THEN "setSent" ELSE "setNotSent",
                          ![t][g].l.error = IF ok THEN @ ELSE MsgMail,
                          ![t][g].l.nCalls = @ + 1]
  /\ UNCHANGED <<pnf, sto, oauth, env, store, thumb, title, upload, errh, emitted, inserted, upstream>>
  /\ UNCHANGED watchVars

\* `await state.set(traceId, "emailNotification", { sent: true, to })`; the
\* handler returns.
MailSetSent(t, g) ==
  /\ mail[t][g].pc = "setSent"
  /\ StateSet(t, "emailNotification", [sent |-> TRUE, to |-> mail[t][g].l.email, error |-> ""])
  /\ mail' = [mail EXCEPT ![t][g] = Returned([@ EXCEPT !.l.nField = @ + 1], "success", 0)]
  /\ UNCHANGED <<pnf, sto, oauth, env, thumb, title, upload, errh, emitted, inserted, upstream>>
  /\ UNCHANGED watchVars

\* catch: `await state.set(traceId, "emailNotification", { sent: false,
\* error })`
MailSetNotSent(t, g) ==
  /\ mail[t][g].pc = "setNotSent"
  /\ StateSet(t, "emailNotification", [sent |-> FALSE, to |-> "", error |-> mail[t][g].l.error])
  /\ mail' = [mail EXCEPT ![t][g].pc = "emitError", ![t][g].l.nField = @ + 1]
  /\ UNCHANGED <<pnf, sto, oauth, env, thumb, title, upload, errh, emitted, inserted, upstream>>
  /\ UNCHANGED watchVars

\* catch: `await emit({ topic: "pipeline.error", data: { traceId, step:
\* "send-email", error, videoId } })`: the event is delivered to the
\* ErrorHandler.
MailEmitError(t, g) ==
  /\ mail[t][g].pc = "emitError"
  /\ Emit(t, "pipeline.error")
  /\ EnqueueError(t, MailSlot(g), "pipeline.error", mail[t][g].l.error, "send-email")
  /\ mail' = [mail EXCEPT ![t][g] = Returned(@, "error", 1)]
  /\ UNCHANGED <<pnf, sto, oauth, env, store, thumb, title, upload, inserted, upstream>>
  /\ UNCHANGED watchVars

(***************************************************************************)
(*        Failures of the state store inside the stage handlers            *)
(***************************************************************************)
MsgState == "state store unavailable"

\* The positions of a stage handler, inside its try block, where a state
\* store operation is awaited.
ThumbStateOps  == {"getMetadata", "setGenerating", "setThumbnail", "setStatus"}
TitleStateOps  == {"getMetadata", "getGeneratedContent", "setUserTitle", "setGenerating",
                   "setGeneratedTitle", "setMetadata", "setStatus"}
UploadStateOps == {"queued", "getMetadata", "getGeneratedTitle", "getThumbnail",
                   "setUploading", "setResult", "setCompleted"}

\* A state.get or state.set in the try block of the thumbnail stage throws;
\* control passes to the catch block (line 214).
ThumbStateThrows(t) ==
  /\ thumb[t].pc \in ThumbStateOps \/ (thumb[t].pc = "queued" /\ env.apiKey)
  /\ faults < MaxFaults
  /\ faults' = faults + 1
  /\ thumb' = [thumb EXCEPT ![t].pc = "setFailed", ![t].l.error = MsgState]
  /\ UNCHANGED <<watcherInitialized, watchers, knownFiles, cron, adds, detected>>
  /\ UNCHANGED <<pnf, sto, oauth, env, mail, store, title, upload, errh, emitted, inserted, upstream>>

\* The state.set of the catch block throws; its own try/catch (lines 221-228)
\* only logs, and the error event is emitted next.
ThumbSetFailedThrows(t) ==
  /\ thumb[t].pc = "setFailed"
  /\ faults < MaxFaults
  /\ faults' = faults + 1
  /\ thumb' = [thumb EXCEPT ![t].pc = "emitError"]
  /\ UNCHANGED <<watcherInitialized, watchers, knownFiles, cron, adds, detected>>
  /\ UNCHANGED <<pnf, sto, oauth, env, mail, store, title, upload, errh, emitted, inserted, upstream>>

\* The same two failures in the title stage (catch at line 220, inner
\* try/catch at lines 227-234).
TitleStateThrows(t) ==
  /\ title[t].pc \in TitleStateOps \/ (title[t].pc = "queued" /\ env.apiKey)
  /\ faults < MaxFaults
  /\ faults' = faults + 1
  /\ title' = [title EXCEPT ![t].pc = "setFailed", ![t].l.error = MsgState]
  /\ UNCHANGED <<watcherInitialized, watchers, knownFiles, cron, adds, detected>>
  /\ UNCHANGED <<pnf, sto, oauth, env, mail, store, thumb, upload, errh, emitted, inserted, upstream>>

TitleSetFailedThrows(t) ==
  /\ title[t].pc = "setFailed"
  /\ faults < MaxFaults
  /\ faults' = faults + 1
  /\ title' = [title EXCEPT ![t].pc = "emitError"]
  /\ UNCHANGED <<watcherInitialized, watchers, knownFiles, cron, adds, detected>>
  /\ UNCHANGED <<pnf, sto, oauth, env, mail, store, thumb, upload, errh, emitted, inserted, upstream>>

\* A state.get or state.set in the try block of the upload stage throws;
\* control passes to the catch block (line 189).
UploadStateThrows(t, g) ==
  /\ upload[t][g].pc \in UploadStateOps
  /\ faults < MaxFaults
  /\ faults' = faults + 1
  /\ UpFail(t, g, 0, MsgState)
  /\ UNCHANGED <<watcherInitialized, watchers, knownFiles, cron, adds, detected>>
  /\ UNCHANGED <<pnf, sto, oauth, env, mail, store, thumb, title, errh, emitted, inserted, upstream>>

\* The state.set of the catch block (lines 207-211) throws.  Nothing catches
\* it: the exception leaves the handler before the emit of line 213.
UploadSetFailedThrows(t, g) ==
  /\ upload[t][g].pc = "setFailed"
  /\ faults < MaxFaults
  /\ faults' = faults + 1
  /\ upload' = [upload EXCEPT ![t][g] = Rejected(@)]
  /\ UNCHANGED <<watcherInitialized, watchers, knownFiles, cron, adds, detected>>
  /\ UNCHANGED <<pnf, sto, oauth, env, mail, store, thumb, title, errh, emitted, inserted, upstream>>

(***************************************************************************)
(*        Storage  (backend/src/shared/storage.ts)                         *)
(* getStorage() and the LocalStorageAdapter over the local file system.    *)
(* sto.last, sto.got, sto.firstType and sto.lastType are history: the last *)
(* call completed per key, the adapters getStorage has returned, and the   *)
(* value of STORAGE_TYPE at its first and at its latest call.              *)
(***************************************************************************)
MaxSaves == 2   \* saveBuffer calls in flight at the same time

StorageTypes == {"", "local", "s3"}   \* STORAGE_TYPE; "" is unset
BasePath == "output"                        \* LOCAL_STORAGE_PATH || "output"
Buffers  == {"B1", "B2"}

\* The keys the program builds: `videos/${uniqueFilename}` and
\* `thumbnails/${uniqueFilename}`.
KeyParts == {[dir |-> "thumbnails", file |-> "t1.jpg"],
             [dir |-> "videos", file |-> "v1.mp4"]}
StorageKey(p) == p.dir \o "/" \o p.file
Keys == {StorageKey(p) : p \in KeyParts}

\* path.join(basePath, key) and path.dirname(filePath)
Join(base, key) == base \o "/" \o key
Dirname(filePath) ==
  LET p == CHOOSE q \in KeyParts : filePath = Join(BasePath, StorageKey(q))
  IN Join(BasePath, p.dir)
Paths == {Join(BasePath, k) : k \in Keys}

IdleSave == [pc |-> "idle", key |-> "", buffer |-> ""]
\* A call of uploadVideo that is not running, and what the last call
\* returned (storageKey) or threw (error).
NoVideo  == [pc |-> "idle", key |-> "", stream |-> "", storageKey |-> "", error |-> ""]
NoCall   == [op |-> "", buffer |-> "", existed |-> FALSE, error |-> ""]

StorageAtStart ==
  [STORAGE_TYPE    |-> "",
   storageInstance |-> None,
   adapters        |-> 0,
   dirs            |-> {},
   files           |-> [f \in Paths |-> None],
   saves           |-> [i \in 1..MaxSaves |-> IdleSave],
   firstType       |-> None,
   lastType        |-> None,
   got             |-> {},
   last            |-> [k \in Keys |-> NoCall],
   video           |-> NoVideo]

OnlySto ==
  /\ UNCHANGED watchVars
  /\ UNCHANGED <<env, store, thumb, title, upload, errh, mail, emitted, inserted, upstream,
                 pnf, oauth>>

\* The process environment changes: STORAGE_TYPE is set to another value.
SetStorageType(v) ==
  /\ sto.STORAGE_TYPE # v
  /\ sto' = [sto EXCEPT !.STORAGE_TYPE = v]
  /\ OnlySto

\* The adapter `new S3StorageAdapter()` or `new LocalStorageAdapter()`; the
\* constructor of the latter creates basePath.
NewAdapter(storageType) ==
  [id |-> sto.adapters + 1, variant |-> IF storageType = "s3" THEN "s3" ELSE "local"]

\* Variant of getStorage: the adapter is built on every call.
getStorageNotCached ==
  LET storageType == IF sto.STORAGE_TYPE = "" THEN "local" ELSE sto.STORAGE_TYPE
      a == NewAdapter(storageType)
  IN /\ sto' = [sto EXCEPT !.storageInstance = Some(a),
                           !.adapters = @ + 1,
                           !.dirs = IF a.variant = "local" THEN @ \cup {BasePath} ELSE @,
                           !.got = @ \cup {a},
                           !.firstType = IF IsSome(@) THEN @ ELSE Some(sto.STORAGE_TYPE),
                           !.lastType = Some(sto.STORAGE_TYPE)]
     /\ OnlySto

\* getStorage(): the adapter is built on the first call from
\* `process.env.STORAGE_TYPE || "local"` and kept in storageInstance.
getStorage ==
  LET storageType == IF sto.STORAGE_TYPE = "" THEN "local" ELSE sto.STORAGE_TYPE
      a == IF IsSome(sto.storageInstance) THEN Val(sto.storageInstance)
           ELSE NewAdapter(storageType)
  IN /\ sto' = [sto EXCEPT !.storageInstance = Some(a),
                           !.adapters = IF IsSome(sto.storageInstance) THEN @ ELSE @ + 1,
                           !.dirs = IF ~IsSome(sto.storageInstance) /\ a.variant = "local"
                                      THEN @ \cup {BasePath} ELSE @,
                           !.got = @ \cup {a},
                           !.firstType = IF IsSome(@) THEN @ ELSE Some(sto.STORAGE_TYPE),
                           !.lastType = Some(sto.STORAGE_TYPE)]
     /\ OnlySto

\* The adapter in use is the LocalStorageAdapter.
LocalAdapter ==
  IsSome(sto.storageInstance) /\ Val(sto.storageInstance).variant = "local"

\* saveBuffer up to `await import("fs")`: the directory of the file is
\* created when it does not exist.
SaveBufferBegin(i, key, buffer) ==
  /\ LocalAdapter
  /\ sto.saves[i].pc = "idle"
  /\ sto' = [sto EXCEPT !.dirs = @ \cup {Dirname(Join(BasePath, key))},
                        !.saves[i] = [pc |-> "import", key |-> key, buffer |-> buffer]]
  /\ OnlySto

\* Variant of SaveBufferWrite: an existing file is not overwritten.
SaveBufferWriteOnce(i) ==
  /\ sto.saves[i].pc = "import"
  /\ LET key == sto.saves[i].key
         filePath == Join(BasePath, key)
     IN sto' = [sto EXCEPT !.files[filePath] = IF IsSome(@) THEN @ ELSE Some(sto.saves[i].buffer),
                           !.last[key] = [op |-> "saveBuffer", buffer |-> sto.saves[i].buffer,
                                          existed |-> IsSome(sto.files[filePath]), error |-> ""],
                           !.saves[i] = IdleSave]
  /\ OnlySto

\* `writeFileSync(filePath, buffer); return key`
SaveBufferWrite(i) ==
  /\ sto.saves[i].pc = "import"
  /\ LET key == sto.saves[i].key
         filePath == Join(BasePath, key)
     IN sto' = [sto EXCEPT !.files[filePath] = Some(sto.saves[i].buffer),
                           !.last[key] = [op |-> "saveBuffer", buffer |-> sto.saves[i].buffer,
                                          existed |-> IsSome(sto.files[filePath]), error |-> ""],
                           !.saves[i] = IdleSave]
  /\ OnlySto

(* uploadVideo(stream, originalFilename), lines 185-206, with               *)
(* isValidVideoFormat and generateVideoFilename of shared/interfaces.ts.   *)

\* File names as the list of their parts between the dots:
\* filename.split(".")
Filenames == {<<"clip", "mp4">>, <<"CLIP", "MOV">>, <<"clip", "txt">>,
              <<"clip", "mp4", "exe">>, <<"clip">>, <<"mkv">>}

\* s.toLowerCase() over the parts of the model's file names
ToLowerCase(part) ==
  CASE part = "MOV"  -> "mov"
    [] part = "CLIP" -> "clip"
    [] OTHER         -> part

\* filename.split(".").pop()?.toLowerCase(): the last part; for a name
\* without a dot that is the name itself.
Extension(filename) == ToLowerCase(filename[Len(filename)])

VideoFormats == {"mp4", "mov", "avi", "webm", "mkv"}

\* Variant of isValidVideoFormat: the extension is compared as written.
isValidVideoFormatCaseSensitive(filename) == filename[Len(filename)] \in VideoFormats

\* isValidVideoFormat(filename)
isValidVideoFormat(filename) == Extension(filename) \in VideoFormats

\* generateVideoFilename(originalFilename): `video_${Date.now()}_${uuid}.${ext}`
generateVideoFilename(filename) == "v1." \o Extension(filename)

\* uploadVideo up to `await storage.saveStream(...)`: the format check, then
\* getStorage(), the storage key, and in saveStream the directory of the
\* file and createWriteStream(filePath), which creates the empty file.
UploadVideoBegin(filename, stream) ==
  /\ sto.video.pc = "idle"
  /\ sto.STORAGE_TYPE # "s3"
  /\ IF ~isValidVideoFormat(filename)
       THEN sto' = [sto EXCEPT !.video = [NoVideo EXCEPT !.error = "Invalid video format"]]
       ELSE LET storageKey == "videos/" \o generateVideoFilename(filename)
                a == IF IsSome(sto.storageInstance) THEN Val(sto.storageInstance)
                     ELSE NewAdapter("local")
            IN sto' = [sto EXCEPT
                         !.storageInstance = Some(a),
                         !.adapters = IF IsSome(sto.storageInstance) THEN @ ELSE @ + 1,
                         !.got = @ \cup {a},
                         !.firstType = IF IsSome(@) THEN @ ELSE Some(sto.STORAGE_TYPE),
                         !.lastType = Some(sto.STORAGE_TYPE),
                         !.dirs = @ \cup {BasePath, Join(BasePath, "videos")},
                         !.files = (Join(BasePath, storageKey) :> Some("")) @@ @,
                         !.video = [NoVideo EXCEPT !.pc = "saveStream", !.key = storageKey,
                                                   !.stream = stream]]
  /\ OnlySto

\* The write stream finishes: saveStream resolves with the key and
\* uploadVideo returns { storageKey, url, format }.
UploadVideoFinish ==
  /\ sto.video.pc = "saveStream"
  /\ sto' = [sto EXCEPT !.files[Join(BasePath, sto.video.key)] = Some(sto.video.stream),
                        !.video = [NoVideo EXCEPT !.storageKey = sto.video.key]]
  /\ OnlySto

\* The stream or the write stream reports an error: saveStream rejects and
\* uploadVideo throws; the file stays as far as it was written.
UploadVideoStreamError ==
  /\ sto.video.pc = "saveStream"
  /\ sto' = [sto EXCEPT !.video = [NoVideo EXCEPT !.error = "stream error"]]
  /\ OnlySto

\* getStream(key): throws when the file does not exist, otherwise a stream
\* of the bytes of the file.
getStream(key) ==
  LET filePath == Join(BasePath, key) IN
    IF ~IsSome(sto.files[filePath])
      THEN [error |-> "File not found: " \o key, bytes |-> ""]
      ELSE [error |-> "", bytes |-> Val(sto.files[filePath])]

\* Variant of Delete: unlinkSync without the existsSync check throws ENOENT
\* for a file that does not exist.
DeleteUnchecked(key) ==
  /\ LocalAdapter
  /\ LET filePath == Join(BasePath, key)
     IN sto' = [sto EXCEPT !.files[filePath] = None,
                           !.last[key] = [op |-> "delete", buffer |-> "",
                                          existed |-> IsSome(sto.files[filePath]),
                                          error |-> IF IsSome(sto.files[filePath]) THEN "" ELSE "ENOENT"]]
  /\ OnlySto

\* delete(key): `if (existsSync(filePath)) unlinkSync(filePath)`
Delete(key) ==
  /\ LocalAdapter
  /\ LET filePath == Join(BasePath, key)
     IN sto' = [sto EXCEPT !.files[filePath] = IF IsSome(@) THEN None ELSE @,
                           !.last[key] = [op |-> "delete", buffer |-> "",
                                          existed |-> IsSome(sto.files[filePath]), error |-> ""]]
  /\ OnlySto

(***************************************************************************)
(*        OAuth helper  (unnamed/part_002, lines 20-197)                   *)
(* The YouTubeToken collection is env.creds: one document per e-mail with  *)
(* the tokens and the updatedAt timestamp mongoose maintains.  oauth.now   *)
(* is the clock of the collection; oauth.clients are the OAuth2 clients    *)
(* getAuthenticatedClient has returned, each with the e-mail and the       *)
(* tokens its "tokens" listener has captured.  oauth.saved, oauth.order,   *)
(* oauth.lastSave and oauth.lastAuth are history: the tokens saved last    *)
(* per account, the accounts in the order of their last save, who made the *)
(* last save, and the outcome of the last getAuthenticatedClient call.     *)
(***************************************************************************)
MaxClock   == 4   \* writes to the YouTubeToken collection that set updatedAt
MaxClients == 1   \* OAuth2 clients alive at the same time

\* The accounts and the spellings of their e-mail addresses callers pass.
Accounts == {"a@x.com", "b@x.com"}
Spellings(n) == IF n = "a@x.com" THEN {"a@x.com", " A@X.COM "} ELSE {n}
EmailInputs == UNION {Spellings(n) : n \in Accounts}
AccountOf(e) == CHOOSE n \in Accounts : e \in Spellings(n)

\* Credentials: the tokens of an OAuth exchange, and the tokens a "tokens"
\* event reports after a refresh (with or without a new refresh token).
ExchangedTokens == {[access_token |-> "at1", refresh_token |-> "rt1"],
                    [access_token |-> "at2", refresh_token |-> "rt2"]}
RotatedTokens   == {[access_token |-> "at3"],
                    [access_token |-> "at4", refresh_token |-> "rt4"]}

\* A request to /auth/callback that is not running: its query code, the
\* tokens and the e-mail it has obtained, and the status of its response.
NoCallback == [pc |-> "idle", code |-> "", tokens |-> None, id_token |-> None,
               email |-> "", status |-> 0]

OAuthAtStart ==
  [now      |-> 1,
   clients  |-> [c \in 1..MaxClients |-> None],
   saved    |-> [n \in Accounts |-> None],
   order    |-> <<>>,
   lastSave |-> [by |-> "", email |-> ""],
   lastAuth |-> [email |-> "", error |-> "", created |-> FALSE],
   callback |-> NoCallback]

OnlyAuth ==
  /\ UNCHANGED watchVars
  /\ UNCHANGED <<store, thumb, title, upload, errh, mail, emitted, inserted, upstream,
                 pnf, sto>>

\* The list `order` without the account n
Without(order, n) == SelectSeq(order, LAMBDA x : x # n)

\* YouTubeToken.findOneAndUpdate({ email }, { $set: { tokens } }, { upsert:
\* true }): the document with that e-mail is updated, or one is inserted;
\* updatedAt is set to the time of the write.
FindOneAndUpdate(email, tokens) ==
  LET found == {r \in env.creds : r.email = email}
      doc   == [email |-> email, tokens |-> tokens, updatedAt |-> oauth.now + 1]
  IN IF found = {} THEN env.creds \cup {doc}
     ELSE (env.creds \ {CHOOSE r \in found : TRUE}) \cup {doc}

\* saveTokensForUser(email, tokens), called by `by`: the OAuth callback
\* ("callback") or the listener of a client ("tokens").
saveTokensForUser(email, tokens, by) ==
  /\ oauth.now < MaxClock
  /\ env' = [env EXCEPT !.creds = FindOneAndUpdate(NormalizeEmail(email), tokens)]
  /\ oauth' = [oauth EXCEPT !.now = @ + 1,
                            !.saved[AccountOf(email)] = Some(tokens),
                            !.order = Append(Without(@, AccountOf(email)), AccountOf(email)),
                            !.lastSave = [by |-> by, email |-> email]]

\* The OAuth callback stores the tokens of an exchange for the e-mail of the
\* id token (apis/01.1.2-yt-callback.step.ts:41).
SaveTokens(email, tokens) ==
  /\ saveTokensForUser(email, tokens, "callback")
  /\ OnlyAuth

(* YouTube-OAuth-Callback (apis/01.1.2-yt-callback.step.ts), one request at *)
(* a time.  The database connection of line 23 is taken to succeed.        *)

\* req.queryParams?.code: absent ("") or present.
Codes == {"", "code1"}

\* The payload of an id token: with or without an e-mail.
IdTokens == {[email |-> e] : e \in EmailInputs \cup {""}}

\* What getTokensFromCode(code) yields: it throws, or gives tokens without
\* or with an id_token.
Exchanges ==
  {[error |-> TRUE, tokens |-> None, id_token |-> None]}
    \cup [error : {FALSE}, tokens : {Some(tk) : tk \in ExchangedTokens},
          id_token : {None} \cup {Some(i) : i \in IdTokens}]

\* The response of the catch block (lines 58-63) or of line 44.
Respond(status) == oauth' = [oauth EXCEPT !.callback.pc = "done",
                                          !.callback.status = status]

\* Variant of CallbackRequest: the code is not looked at.
CallbackRequestUnchecked(code) ==
  /\ oauth.callback.pc = "idle"
  /\ oauth' = [oauth EXCEPT !.callback = [NoCallback EXCEPT !.pc = "getTokens", !.code = code]]
  /\ UNCHANGED env
  /\ OnlyAuth

\* A request arrives: `await connectMongo()`, then the check of the code
\* (lines 23-33).
CallbackRequest(code) ==
  /\ oauth.callback.pc = "idle"
  /\ IF code = ""
       THEN oauth' = [oauth EXCEPT !.callback = [NoCallback EXCEPT !.pc = "done", !.status = 500]]
       ELSE oauth' = [oauth EXCEPT !.callback = [NoCallback EXCEPT !.pc = "getTokens",
                                                                   !.code = code]]
  /\ UNCHANGED env
  /\ OnlyAuth

\* `await getTokensFromCode(code)`, then the check of tokens.id_token
\* (lines 35-38).
CallbackGetTokens(x) ==
  /\ oauth.callback.pc = "getTokens"
  /\ IF x.error \/ ~IsSome(x.id_token)
       THEN Respond(500)
       ELSE oauth' = [oauth EXCEPT !.callback.pc = "getEmail",
                                   !.callback.tokens = x.tokens,
                                   !.callback.id_token = x.id_token]
  /\ UNCHANGED env
  /\ OnlyAuth

\* `await getEmailFromIdToken(tokens.id_token)`: the verification throws, or
\* the payload has no e-mail ("Email not found in ID token"), or it has one.
CallbackGetEmail(verified) ==
  /\ oauth.callback.pc = "getEmail"
  /\ LET payload == Val(oauth.callback.id_token) IN
       IF ~verified \/ payload.email = ""
         THEN Respond(500)
         ELSE oauth' = [oauth EXCEPT !.callback.pc = "save",
                                     !.callback.email = payload.email]
  /\ UNCHANGED env
  /\ OnlyAuth

\* `await saveTokensForUser(email, tokens)` (line 41), then the 200 response.
CallbackSave ==
  /\ oauth.callback.pc = "save"
  /\ oauth.now < MaxClock
  /\ env' = [env EXCEPT !.creds = FindOneAndUpdate(NormalizeEmail(oauth.callback.email),
                                                   Val(oauth.callback.tokens))]
  /\ oauth' = [oauth EXCEPT
                 !.now = @ + 1,
                 !.saved[AccountOf(oauth.callback.email)] = oauth.callback.tokens,
                 !.order = Append(Without(@, AccountOf(oauth.callback.email)),
                                  AccountOf(oauth.callback.email)),
                 !.lastSave = [by |-> "callback", email |-> oauth.callback.email],
                 !.callback.pc = "done", !.callback.status = 200]
  /\ OnlyAuth

\* `await saveTokensForUser(email, tokens)` throws: the write did not happen.
CallbackSaveFails ==
  /\ oauth.callback.pc = "save"
  /\ Respond(500)
  /\ UNCHANGED env
  /\ OnlyAuth

\* The response has been sent; the next request may arrive.
CallbackReturn ==
  /\ oauth.callback.pc = "done"
  /\ oauth' = [oauth EXCEPT !.callback.pc = "idle"]
  /\ UNCHANGED env
  /\ OnlyAuth

\* deleteTokensForUser(email): YouTubeToken.deleteOne({ email })
deleteTokensForUser(email) ==
  /\ env' = [env EXCEPT !.creds = {r \in @ : r.email # NormalizeEmail(email)}]
  /\ oauth' = [oauth EXCEPT !.saved[AccountOf(email)] = None,
                            !.order = Without(@, AccountOf(email))]
  /\ OnlyAuth

\* getAuthenticatedClient(email): throws "User not authenticated" when
\* loadTokensForUser yields null; otherwise a client with the credentials
\* set and a "tokens" listener that has captured email and tokens.
getAuthenticatedClient(c, email) ==
  /\ ~IsSome(oauth.clients[c])
  /\ LET tokens == loadTokensForUser(email) IN
       IF ~IsSome(tokens)
         THEN oauth' = [oauth EXCEPT !.lastAuth = [email |-> email,
                                                   error |-> "User not authenticated",
                                                   created |-> FALSE]]
         ELSE oauth' = [oauth EXCEPT !.clients[c] = Some([email |-> email, tokens |-> Val(tokens)]),
                                     !.lastAuth = [email |-> email, error |-> "", created |-> TRUE]]
  /\ UNCHANGED env
  /\ OnlyAuth

\* The client is dropped when its caller returns.
DropClient(c) ==
  /\ IsSome(oauth.clients[c])
  /\ oauth' = [oauth EXCEPT !.clients[c] = None]
  /\ UNCHANGED env
  /\ OnlyAuth

\* { ...tokens, ...newTokens }
Spread(tokens, newTokens) == newTokens @@ tokens

\* Variant of TokensEvent: only the new tokens are stored.
TokensEventNewOnly(c, newTokens) ==
  /\ IsSome(oauth.clients[c])
  /\ saveTokensForUser(Val(oauth.clients[c]).email, newTokens, "tokens")
  /\ OnlyAuth

\* The client reports rotated tokens: the listener runs
\* `await saveTokensForUser(email, { ...tokens, ...newTokens })`.
TokensEvent(c, newTokens) ==
  /\ IsSome(oauth.clients[c])
  /\ saveTokensForUser(Val(oauth.clients[c]).email,
                       Spread(Val(oauth.clients[c]).tokens, newTokens), "tokens")
  /\ OnlyAuth

(***************************************************************************)
(*                         SPECIFICATIONS                                  *)
(***************************************************************************)
\* The credential of the connected account (YouTubeToken collection)
Credential == [email |-> "a@x.com",
               tokens |-> [access_token |-> "at1", refresh_token |-> "rt1"],
               updatedAt |-> 1]

InitWatcherVars ==
  /\ watcherInitialized = FALSE
  /\ watchers = 0
  /\ cron = [i \in 1..MaxFirings |-> [pc |-> "idle"]]
  /\ adds = [j \in 1..MaxAdds |-> [pc |-> "idle", fileName |-> "", known |-> <<>>]]
  /\ detected = [f \in Files |-> 0]
  /\ faults = 0

InitPipeVars ==
  /\ store = [t \in TraceIds |-> [k \in Fields |-> None]]
  /\ thumb = [t \in Traces |-> Proc("idle")]
  /\ title = [t \in Traces |-> Proc("idle")]
  /\ upload = [t \in Traces |-> [g \in UploadTriggers |-> Proc("idle")]]
  /\ errh = [t \in TraceIds |-> [s \in ErrSlots |-> ErrProcIdle]]
  /\ mail = [t \in Traces |-> [g \in UploadTriggers |-> Proc("idle")]]
  /\ emitted = [t \in Traces |-> [k \in Topics |-> 0]]
  /\ inserted = [t \in Traces |-> 0]
  /\ upstream = [t \in Traces |-> "none"]
  /\ pnf = [j \in 1..MaxAdds |-> "idle"]
  /\ sto = StorageAtStart
  /\ oauth = OAuthAtStart

\* The pipeline: the process starts with or without GEMINI_API_KEY and with
\* or without a connected account; the watcher is not running.
Init ==
  /\ InitWatcherVars
  /\ knownFiles = None
  /\ InitPipeVars
  /\ env \in [apiKey : BOOLEAN, creds : {{}, {Credential}}, brevo : {TRUE}]

UpstreamNext(t) ==
  \/ \E in \in Inputs : FileUploaded(t, in)
  \/ PromptsGenerated(t)

ThumbNext(t) ==
  \/ ThumbGetVideoData(t)
  \/ ThumbGetMetadata(t)
  \/ ThumbSetGenerating(t)
  \/ \E o \in {"image", "noimage", "error"} : ThumbGenerate(t, o)
  \/ \E ok \in BOOLEAN : ThumbDescribe(t, ok)
  \/ \E ok \in BOOLEAN : ThumbUpload(t, ok)
  \/ ThumbSetThumbnail(t)
  \/ ThumbSetStatus(t)
  \/ ThumbEmit(t)
  \/ ThumbSetFailed(t)
  \/ ThumbEmitError(t)

TitleNext(t) ==
  \/ TitleGetVideoData(t)
  \/ TitleGetMetadata(t)
  \/ TitleGetGeneratedContent(t)
  \/ TitleSetUserTitle(t)
  \/ TitleSetGenerating(t)
  \/ \E ok \in BOOLEAN : TitleGenerate(t, ok)
  \/ TitleSetGeneratedTitle(t)
  \/ TitleSetMetadata(t)
  \/ TitleSetStatus(t)
  \/ TitleEmit(t)
  \/ TitleSetFailed(t)
  \/ TitleEmitError(t)

UploadNext(t, g) ==
  \/ UploadGetVideoData(t, g)
  \/ UploadGetMetadata(t, g)
  \/ UploadGetGeneratedTitle(t, g)
  \/ UploadGetThumbnail(t, g)
  \/ UploadSetUploading(t, g)
  \/ UploadGetUser(t, g)
  \/ UploadGetClient(t, g)
  \/ UploadInsert(t, g)
  \/ \E c \in HostErrorCodes : UploadInsertFails(t, g, c)
  \/ UploadSetResult(t, g)
  \/ UploadSetCompleted(t, g)
  \/ UploadEmit(t, g)
  \/ UploadSetFailed(t, g)
  \/ UploadEmitError(t, g)

ErrNext(t, s) ==
  \/ ErrGetErrors(t, s)
  \/ ErrSetErrors(t, s)
  \/ ErrSetStatus(t, s)
  \/ ErrSetSummary(t, s)

MailNext(t, g) ==
  \/ MailGetUploadResult(t, g)
  \/ MailGetUser(t, g)
  \/ \E ok \in BOOLEAN : MailFetch(t, g, ok)
  \/ MailSetSent(t, g)
  \/ MailSetNotSent(t, g)
  \/ MailEmitError(t, g)

\* The stages up to the upload and the ErrorHandler.  The e-mail invocations
\* a youtube.upload.completed event starts stay enqueued here; they run in
\* SpecMail.
Next ==
  \E t \in Traces :
    \/ UpstreamNext(t)
    \/ ThumbNext(t)
    \/ TitleNext(t)
    \/ \E g \in UploadTriggers : UploadNext(t, g)
    \/ \E s \in ErrSources : ErrNext(t, s)

Spec == Init /\ [][Next]_vars

\* The folder watcher: the state store may or may not hold a knownFiles list
\* of an earlier process; the pipeline is idle.
InitWatch ==
  /\ InitWatcherVars
  /\ knownFiles \in {None, Some(<<>>), Some(<<"a.mp4">>)}
  /\ InitPipeVars
  /\ env = [apiKey |-> TRUE, creds |-> {}, brevo |-> TRUE]

NextWatch ==
  \/ \E i \in 1..MaxFirings :
       \/ HandlerEnter(i)
       \/ HandlerGet(i)
       \/ HandlerSet(i)
       \/ HandlerThrow(i)
  \/ \E j \in 1..MaxAdds :
       \/ \E f \in Files : AddBegin(j, f)
       \/ AddGet(j)
       \/ AddSet(j)
       \/ AddEmit(j)
       \/ AddThrow(j)

SpecWatch == InitWatch /\ [][NextWatch]_vars

\* One invocation of each stage handler (the upload started by
\* file.uploaded) with a state store that may fail: at most MaxFaults
\* operations throw.  The events they emit stay enqueued.
NextFault ==
  \E t \in Traces :
    \/ UpstreamNext(t)
    \/ ThumbNext(t)
    \/ TitleNext(t)
    \/ ThumbStateThrows(t)
    \/ ThumbSetFailedThrows(t)
    \/ TitleStateThrows(t)
    \/ TitleSetFailedThrows(t)
    \/ UploadNext(t, "file.uploaded")
    \/ UploadStateThrows(t, "file.uploaded")
    \/ UploadSetFailedThrows(t, "file.uploaded")

SpecFault == Init /\ [][NextFault]_vars

\* The upload started by file.uploaded, the e-mail stage behind it and the
\* ErrorHandler, with or without a connected account and a Brevo setup.
InitMail ==
  /\ InitWatcherVars
  /\ knownFiles = None
  /\ InitPipeVars
  /\ env \in [apiKey : {TRUE}, creds : {{}, {Credential}}, brevo : BOOLEAN]

NextMail ==
  \E t \in Traces :
    \/ \E in \in Inputs : FileUploaded(t, in)
    \/ UploadNext(t, "file.uploaded")
    \/ MailNext(t, "file.uploaded")
    \/ \E s \in {"file.uploaded", MailSlot("file.uploaded")} : ErrNext(t, s)

SpecMail == InitMail /\ [][NextMail]_vars

\* One invocation of every handler: the two stages behind prompts.generated,
\* the upload started by file.uploaded, the e-mail stage behind it, and the
\* ErrorHandler for the error event of each of them.
NextOnce ==
  \E t \in Traces :
    \/ UpstreamNext(t)
    \/ ThumbNext(t)
    \/ TitleNext(t)
    \/ UploadNext(t, "file.uploaded")
    \/ MailNext(t, "file.uploaded")
    \/ \E s \in {"thumb", "title", "file.uploaded", MailSlot("file.uploaded")} : ErrNext(t, s)

SpecOnce == InitMail /\ [][NextOnce]_vars

\* The ErrorHandler alone: error events of any shape arrive for a trace that
\* is new, has just been uploaded, or has completed; the state store may fail.
TraceStates ==
  {[k \in Fields |-> None],
   [k \in Fields |-> CASE k = "videoData" -> Some(VideoDataIn)
                        [] k = "metadata"  -> Some([title |-> "My Video", autoGenerateTitle |-> FALSE])
                        [] k = "status"    -> Some(Status("uploading"))
                        [] OTHER           -> None],
   [k \in Fields |-> CASE k = "videoData"    -> Some(VideoDataIn)
                        [] k = "metadata"     -> Some([title |-> "My Video", autoGenerateTitle |-> FALSE])
                        [] k = "uploadResult" -> Some([videoId |-> "vid", thumbnailUploaded |-> FALSE])
                        [] k = "status"       -> Some(Status("completed"))
                        [] OTHER              -> None]}

InitErr ==
  /\ InitWatcherVars
  /\ knownFiles = None
  /\ thumb = [t \in Traces |-> Proc("idle")]
  /\ title = [t \in Traces |-> Proc("idle")]
  /\ upload = [t \in Traces |-> [g \in UploadTriggers |-> Proc("idle")]]
  /\ errh = [t \in TraceIds |-> [s \in ErrSlots |-> ErrProcIdle]]
  /\ mail = [t \in Traces |-> [g \in UploadTriggers |-> Proc("idle")]]
  /\ emitted = [t \in Traces |-> [k \in Topics |-> 0]]
  /\ inserted = [t \in Traces |-> 0]
  /\ upstream = [t \in Traces |-> "none"]
  /\ pnf = [j \in 1..MaxAdds |-> "idle"]
  /\ sto = StorageAtStart
  /\ oauth = OAuthAtStart
  /\ env = [apiKey |-> TRUE, creds |-> {Credential}, brevo |-> TRUE]
  /\ \E st \in TraceStates :
       store = [t \in TraceIds |-> IF t \in Traces THEN st ELSE [k \in Fields |-> None]]

NextErr ==
  \E s \in DirectSlots :
    \/ \E ev \in ErrPayloads : ErrorEvent(s, ev)
    \/ \E t \in TraceIds :
         \/ ErrNext(t, s)
         \/ ErrGetThrows(t, s)
         \/ ErrSetThrows(t, s)

SpecErr == InitErr /\ [][NextErr]_vars

\* The folder watcher together with ProcessNewFile, the subscriber of its
\* event, under fair scheduling: a started "add" callback and an enqueued
\* ProcessNewFile invocation eventually take their next step.
NextDetect ==
  \/ NextWatch
  \/ \E j \in 1..MaxAdds : ProcessNewFile(j)

FairDetect ==
  \A j \in 1..MaxAdds :
    /\ WF_vars(AddGet(j))
    /\ WF_vars(AddSet(j))
    /\ WF_vars(AddEmit(j))
    /\ WF_vars(ProcessNewFile(j))

SpecDetect == InitWatch /\ [][NextDetect]_vars /\ FairDetect

\* The success run: videoData and metadata are present, GEMINI_API_KEY and
\* the Brevo settings are set, an account is connected, and every external
\* call (the generative model returns an image and a title, storage and the
\* video host accept the uploads) and every state operation succeeds.
\* Handlers are scheduled fairly: an invocation that can take its next step
\* eventually takes it.  The e-mail invocations stay enqueued: on their
\* success path they write emailNotification only.
InitSuccess ==
  /\ InitWatcherVars
  /\ knownFiles = None
  /\ InitPipeVars
  /\ env = [apiKey |-> TRUE, creds |-> {Credential}, brevo |-> TRUE]

ThumbSucceeds(t) ==
  \/ ThumbGetVideoData(t)
  \/ ThumbGetMetadata(t)
  \/ ThumbSetGenerating(t)
  \/ ThumbGenerate(t, "image")
  \/ ThumbUpload(t, TRUE)
  \/ ThumbSetThumbnail(t)
  \/ ThumbSetStatus(t)
  \/ ThumbEmit(t)

TitleSucceeds(t) ==
  \/ TitleGetVideoData(t)
  \/ TitleGetMetadata(t)
  \/ TitleGetGeneratedContent(t)
  \/ TitleSetUserTitle(t)
  \/ TitleSetGenerating(t)
  \/ TitleGenerate(t, TRUE)
  \/ TitleSetGeneratedTitle(t)
  \/ TitleSetMetadata(t)
  \/ TitleSetStatus(t)
  \/ TitleEmit(t)

UploadSucceeds(t, g) ==
  \/ UploadGetVideoData(t, g)
  \/ UploadGetMetadata(t, g)
  \/ UploadGetGeneratedTitle(t, g)
  \/ UploadGetThumbnail(t, g)
  \/ UploadSetUploading(t, g)
  \/ UploadGetUser(t, g)
  \/ UploadGetClient(t, g)
  \/ UploadInsert(t, g)
  \/ UploadSetResult(t, g)
  \/ UploadSetCompleted(t, g)
  \/ UploadEmit(t, g)

NextSuccess ==
  \E t \in Traces :
    \/ \E m \in MetadataIn : FileUploaded(t, [videoData |-> Some(VideoDataIn), metadata |-> Some(m)])
    \/ PromptsGenerated(t)
    \/ ThumbSucceeds(t)
    \/ TitleSucceeds(t)
    \/ \E g \in UploadTriggers : UploadSucceeds(t, g)

FairSuccess ==
  \A t \in Traces :
    /\ WF_vars(ThumbSucceeds(t))
    /\ WF_vars(TitleSucceeds(t))
    /\ \A g \in UploadTriggers : WF_vars(UploadSucceeds(t, g))

SpecSuccess == InitSuccess /\ [][NextSuccess]_vars /\ FairSuccess

\* The e-mail stage behind two upload invocations: the one started by
\* file.uploaded and the one started by final.title.generated (the title
\* stage succeeds), with the ErrorHandler for the error events of the
\* upload and e-mail stages.  The video host and Brevo may fail.
MailTriggers == {"file.uploaded", "final.title.generated"}

NextMails ==
  \E t \in Traces :
    \/ \E m \in MetadataIn : FileUploaded(t, [videoData |-> Some(VideoDataIn), metadata |-> Some(m)])
    \/ PromptsGenerated(t)
    \/ TitleSucceeds(t)
    \/ \E g \in MailTriggers :
         \/ UploadNext(t, g)
         \/ MailNext(t, g)
         \/ ErrNext(t, g)
         \/ ErrNext(t, MailSlot(g))

SpecMails == InitSuccess /\ [][NextMails]_vars

\* The storage module alone: the process starts with any STORAGE_TYPE, the
\* variable may change, and callers use the adapter getStorage returns.
InitStore ==
  /\ InitWatcherVars
  /\ knownFiles = None
  /\ store = [t \in TraceIds |-> [k \in Fields |-> None]]
  /\ thumb = [t \in Traces |-> Proc("idle")]
  /\ title = [t \in Traces |-> Proc("idle")]
  /\ upload = [t \in Traces |-> [g \in UploadTriggers |-> Proc("idle")]]
  /\ errh = [t \in TraceIds |-> [s \in ErrSlots |-> ErrProcIdle]]
  /\ mail = [t \in Traces |-> [g \in UploadTriggers |-> Proc("idle")]]
  /\ emitted = [t \in Traces |-> [k \in Topics |-> 0]]
  /\ inserted = [t \in Traces |-> 0]
  /\ upstream = [t \in Traces |-> "none"]
  /\ pnf = [j \in 1..MaxAdds |-> "idle"]
  /\ oauth = OAuthAtStart
  /\ env = [apiKey |-> TRUE, creds |-> {}, brevo |-> TRUE]
  /\ \E v \in StorageTypes : sto = [StorageAtStart EXCEPT !.STORAGE_TYPE = v]

NextStore ==
  \/ \E v \in StorageTypes : SetStorageType(v)
  \/ getStorage
  \/ \E i \in 1..MaxSaves :
       \/ \E key \in Keys, buffer \in Buffers : SaveBufferBegin(i, key, buffer)
       \/ SaveBufferWrite(i)
  \/ \E key \in Keys : Delete(key)

SpecStore == InitStore /\ [][NextStore]_vars

\* The OAuth helper: accounts are connected and disconnected, clients are
\* created and report rotated tokens.  No account is connected at first.
InitAuth ==
  /\ InitWatcherVars
  /\ knownFiles = None
  /\ InitPipeVars
  /\ env = [apiKey |-> TRUE, creds |-> {}, brevo |-> TRUE]

NextAuth ==
  \/ \E email \in EmailInputs :
       \/ \E tokens \in ExchangedTokens : SaveTokens(email, tokens)
       \/ deleteTokensForUser(email)
       \/ \E c \in 1..MaxClients : getAuthenticatedClient(c, email)
  \/ \E c \in 1..MaxClients :
       \/ DropClient(c)
       \/ \E newTokens \in RotatedTokens : TokensEvent(c, newTokens)

SpecAuth == InitAuth /\ [][NextAuth]_vars

\* The OAuth helper together with one invocation of Upload-To-YouTube (the
\* one started by file.uploaded): accounts are connected and disconnected
\* while the upload runs, and a caller asks for a client.
NextAuthUpload ==
  \/ \E email \in EmailInputs :
       \/ SaveTokens(email, [access_token |-> "at1", refresh_token |-> "rt1"])
       \/ deleteTokensForUser(email)
       \/ getAuthenticatedClient(1, email)
  \/ DropClient(1)
  \/ \E t \in Traces :
       \/ FileUploaded(t, [videoData |-> Some(VideoDataIn),
                           metadata |-> Some([title |-> "My Video", autoGenerateTitle |-> FALSE])])
       \/ UploadNext(t, "file.uploaded")

SpecAuthUpload == InitAuth /\ [][NextAuthUpload]_vars


(***************************************************************************)
(*                              CLAIMS                                     *)
(***************************************************************************)
StatusOf(t) == IF IsSome(store[t]["status"]) THEN Val(store[t]["status"]).status ELSE ""
ErrorsOf(t) == IF IsSome(store[t]["errors"]) THEN Val(store[t]["errors"]) ELSE <<>>

\* C1: for every trace the video is submitted to the video host
\* (youtube.videos.insert) at most once, over all invocations of the upload
\* handler for that trace.
UploadAtMostOnce == \A t \in Traces : inserted[t] <= 1

\* C2: the status "failed" is absorbing: once a trace's status is "failed",
\* no write changes it to another value.
FailedIsAbsorbing ==
  [][\A t \in Traces : StatusOf(t) = "failed" => StatusOf(t)' = "failed"]_vars

\* C2 (weaker reading): once "failed", the status is never changed to a value
\* that is not a failed value.
FailedNeverRecovers ==
  [][\A t \in Traces :
       StatusOf(t) = "failed"
         => StatusOf(t)' \in {"failed", "thumbnail-generation-failed",
                              "title-generation-failed", "upload-failed"}]_vars

FailedValues == {"failed", "thumbnail-generation-failed", "title-generation-failed",
                 "upload-failed"}
\* Position of a status value in the documented order of a successful run.
Rank(s) ==
  CASE s = "uploading"                       -> 0
    [] s = "generating-thumbnail"            -> 1
    [] s = "thumbnail-generated"             -> 2
    [] s = "thumbnail-description-generated" -> 2
    [] s = "generating-title"                -> 3
    [] s = "title-generated"                 -> 4
    [] s = "uploading-to-youtube"            -> 5
    [] s = "completed"                       -> 6
    [] OTHER                                 -> 0

\* C3: every change of a trace's status from a value of the documented order
\* goes to a value that is not earlier in that order, or to a failed value.
StatusMonotonic ==
  [][\A t \in Traces :
       (StatusOf(t) # "" /\ StatusOf(t) \notin FailedValues)
         => (StatusOf(t)' \in FailedValues \/ Rank(StatusOf(t)') >= Rank(StatusOf(t)))]_vars

ErrCompleted(t) == {s \in ErrSources : errh[t][s].pc = "done"}
ErrInProgress(t) == {s \in ErrSources : errh[t][s].pc \in {"setErrors", "setStatus", "setSummary"}}

\* C4: after N completed ErrorHandler invocations for a trace, the trace's
\* errors list has at least N entries.
ErrorsNotLost == \A t \in Traces : Cardinality(ErrCompleted(t)) <= Len(ErrorsOf(t))

\* C5: whenever no ErrorHandler invocation is in progress for a trace that
\* has an errorSummary, its totalErrors is the length of the stored errors
\* list and its lastError is the last entry of that list.
SummaryMatchesErrors ==
  \A t \in Traces :
    (IsSome(store[t]["errorSummary"]) /\ ErrInProgress(t) = {})
      => LET sum == Val(store[t]["errorSummary"])
             es  == ErrorsOf(t)
         IN  /\ sum.totalErrors = Len(es)
             /\ Len(es) > 0
             /\ sum.lastError = es[Len(es)]

\* C6: file.new.detected is emitted at most once for every file name.
DetectedAtMostOnce == \A f \in Files : detected[f] <= 1

\* C7: at every moment at most one filesystem watcher exists in the process.
AtMostOneWatcher == watchers <= 1

\* C7 witness: the scheduler has fired several times, one firing started the
\* watcher and another one returned at the latch.
WatcherStartedOnceFiredTwice ==
  /\ watchers = 1
  /\ \E i, j \in 1..MaxFirings : cron[i].pc = "done" /\ cron[j].pc = "skipped"

\* C8: the latch is set only by a successful start: when the latch is set,
\* the watcher exists or an invocation is still on its way to create it, so
\* a firing after a failed start is not turned away.
LatchOnlyAfterStart ==
  watcherInitialized => (watchers > 0 \/ \E i \in 1..MaxFirings : cron[i].pc \in {"get", "set"})

Known(f) == IsSome(knownFiles) /\ Includes(Val(knownFiles), f)

\* C9: the persisted knownFiles list grows monotonically: a file name that
\* is in the list is in it in every later state.
KnownFilesMonotone == [][\A f \in Files : Known(f) => Known(f)']_vars

StageErrorEmitted(t) ==
  emitted[t]["thumbnail.image.generation.error"]
    + emitted[t]["final.title.generation.error"] > 0

\* C10: once the thumbnail stage or the title stage has emitted its error
\* topic for a trace, no youtube.upload.completed is emitted for the trace
\* and its status does not become "completed".
StageFailureIsTerminal ==
  [][\A t \in Traces :
       StageErrorEmitted(t)
         => /\ emitted'[t]["youtube.upload.completed"] = emitted[t]["youtube.upload.completed"]
            /\ (StatusOf(t)' = "completed" => StatusOf(t) = "completed")]_vars

(***************************************************************************)
(*                   CLAIMS ABOUT THE STAGE HANDLERS                       *)
(***************************************************************************)
Succeeded(p)   == p.pc = "done" /\ p.l.outcome = "success"
HasReturned(p) == p.pc \in {"done", "rejected"}

\* C11: the video is submitted to the video host only after both the
\* thumbnail stage and the title stage have completed: at the time of
\* youtube.videos.insert the trace holds a thumbnail and a generatedTitle.
UploadAfterThumbnailAndTitle ==
  [][\A t \in Traces :
       inserted'[t] # inserted[t]
         => (IsSome(store[t]["thumbnail"]) /\ IsSome(store[t]["generatedTitle"]))]_vars

\* C12: every invocation of a stage handler has emitted exactly one event
\* (its success topic or its error topic) when it returns, also when a
\* state store operation inside the handler fails.
ExactlyOneEventPerInvocation ==
  \A t \in Traces :
    /\ HasReturned(thumb[t]) => thumb[t].l.nEmit = 1
    /\ HasReturned(title[t]) => title[t].l.nEmit = 1
    /\ \A g \in UploadTriggers : HasReturned(upload[t][g]) => upload[t][g].l.nEmit = 1

\* The part of C12 about the thumbnail stage and the title stage.
ThumbAndTitleEmitExactlyOne ==
  \A t \in Traces :
    /\ HasReturned(thumb[t]) => thumb[t].l.nEmit = 1
    /\ HasReturned(title[t]) => title[t].l.nEmit = 1

\* C13 as stated: every successful invocation of a stage handler has written
\* the status exactly once and its own stage-named field exactly once.
StatusOnceFieldOnce ==
  \A t \in Traces :
    /\ Succeeded(thumb[t]) => (thumb[t].l.nStatus = 1 /\ thumb[t].l.nField = 1)
    /\ Succeeded(title[t]) => (title[t].l.nStatus = 1 /\ title[t].l.nField = 1)
    /\ \A g \in UploadTriggers :
         Succeeded(upload[t][g]) => (upload[t][g].l.nStatus = 1 /\ upload[t][g].l.nField = 1)

\* The title stored for the trace is the user's own (the title stage took
\* lines 38-53).
UserTitleStored(t) ==
  IsSome(store[t]["generatedTitle"]) /\ ~Val(store[t]["generatedTitle"]).isGenerated

\* C13: every successful invocation of a stage handler has written its own
\* stage-named field exactly once, and the status twice (the in-progress
\* value, then the final value) -- except a title invocation that kept the
\* user's title, which has written no status.
StatusTwiceFieldOnce ==
  \A t \in Traces :
    /\ Succeeded(thumb[t]) => (thumb[t].l.nStatus = 2 /\ thumb[t].l.nField = 1)
    /\ Succeeded(title[t])
         => /\ title[t].l.nField = 1
            /\ title[t].l.nStatus = IF UserTitleStored(t) THEN 0 ELSE 2
    /\ \A g \in UploadTriggers :
         Succeeded(upload[t][g]) => (upload[t][g].l.nStatus = 2 /\ upload[t][g].l.nField = 1)

\* C13 witness: the three stages have succeeded, the title stage by the AI
\* call.
AllStagesSucceeded ==
  \E t \in Traces :
    /\ Succeeded(thumb[t]) /\ Succeeded(title[t]) /\ ~UserTitleStored(t)
    /\ \E g \in UploadTriggers : Succeeded(upload[t][g])

\* The upstream stages have run and left the trace without videoData or
\* without metadata.
InputsAbsent(t) ==
  /\ upstream[t] # "none"
  /\ (~IsSome(store[t]["videoData"]) \/ ~IsSome(store[t]["metadata"]))

\* C14: for a trace without videoData or without metadata, a stage handler
\* calls no external service, every status it writes is its "<stage>-failed"
\* value with the error message, and it returns having emitted its error
\* topic and nothing else.
MissingInputsFailFast ==
  [][\A t \in Traces :
       InputsAbsent(t)
         => /\ thumb'[t].l.nCalls = 0 /\ title'[t].l.nCalls = 0 /\ inserted'[t] = 0
            /\ \A g \in UploadTriggers : upload'[t][g].l.nCalls = 0
            /\ thumb'[t].l.nStatus # thumb[t].l.nStatus
                 => /\ thumb[t].l.error \in {MsgNoKey, MsgNoData}
                    /\ store'[t]["status"]
                         = Some(StatusFailed("thumbnail-generation-failed", thumb[t].l.error, ""))
            /\ title'[t].l.nStatus # title[t].l.nStatus
                 => /\ title[t].l.error \in {MsgNoKey, MsgNoData}
                    /\ store'[t]["status"]
                         = Some(StatusFailed("title-generation-failed", title[t].l.error, ""))
            /\ \A g \in UploadTriggers :
                 upload'[t][g].l.nStatus # upload[t][g].l.nStatus
                   => /\ upload[t][g].l.error \in {MsgNoVideoData, MsgNoMetadata}
                      /\ store'[t]["status"]
                           = Some(StatusFailed("upload-failed", upload[t][g].l.error, ""))
            /\ thumb'[t].pc = "done"
                 => /\ thumb'[t].l.outcome = "error" /\ thumb'[t].l.nEmit = 1
                    /\ thumb'[t].l.nStatus = 1
                    /\ emitted'[t]["thumbnail.image.generation.error"] = 1
                    /\ emitted'[t]["thumbnail.image.generated"] = 0
            /\ title'[t].pc = "done"
                 => /\ title'[t].l.outcome = "error" /\ title'[t].l.nEmit = 1
                    /\ title'[t].l.nStatus = 1
                    /\ emitted'[t]["final.title.generation.error"] = 1
                    /\ emitted'[t]["final.title.generated"] = 0
            /\ \A g \in UploadTriggers :
                 upload'[t][g].pc = "done"
                   => /\ upload'[t][g].l.outcome = "error" /\ upload'[t][g].l.nEmit = 1
                      /\ upload'[t][g].l.nStatus = 1
                      /\ emitted'[t]["youtube.upload.error"] >= 1
                      /\ emitted'[t]["youtube.upload.completed"] = 0]_vars

\* C14 witness: the trace has videoData and no metadata, the key is set, and
\* the three stages have returned after their precondition check failed.
MissingMetadataAllFailed ==
  \E t \in Traces :
    /\ IsSome(store[t]["videoData"]) /\ ~IsSome(store[t]["metadata"])
    /\ thumb[t].pc = "done" /\ thumb[t].l.error = MsgNoData
    /\ title[t].pc = "done" /\ title[t].l.error = MsgNoData
    /\ upload[t]["file.uploaded"].pc = "done"
    /\ upload[t]["file.uploaded"].l.error = MsgNoMetadata

\* C15: no exception leaves the ErrorHandler: whatever the event data and
\* whichever state store operation fails, an invocation is waiting, running,
\* or has returned (after its last write, or from its catch block).
ErrorHandlerReturnsNormally ==
  \A t \in TraceIds : \A s \in ErrSlots :
    errh[t][s].pc \in {"idle", "queued", "setErrors", "setStatus", "setSummary", "done", "caught"}

\* C15 witness: an invocation for an undefined payload (trace "unknown") has
\* returned from the catch block after a state.set failed, and another has
\* finished.
ErrorHandlerCaughtFailure ==
  \E s, s2 \in ErrSlots :
    /\ errh["unknown"][s].pc = "caught"
    /\ \E t \in TraceIds : errh[t][s2].pc = "done"

\* The status the ErrorHandler is to leave for the event e.
ExpectedFailed(e) ==
  StatusFailed("failed", IF e.error # "" THEN e.error ELSE FriendlyMessage(e.topic),
               IF e.step # "" THEN e.step ELSE e.topic)

\* Positions of an ErrorHandler invocation before its status write.
BeforeStatusWrite == {"idle", "queued", "setErrors", "setStatus"}

\* C16: the status write of an ErrorHandler invocation leaves status
\* "failed" with the event's error (or the topic's message) and the failing
\* step (the event's step, or the topic), whatever the status was; and when
\* the invocation has completed and no other has written the trace's status,
\* the status is that one.
StatusAfterErrorHandler ==
  /\ [](\A t \in TraceIds : \A s \in ErrSlots :
          (/\ errh[t][s].pc = "done"
           /\ \A s2 \in ErrSlots \ {s} : errh[t][s2].pc \in BeforeStatusWrite)
            => store[t]["status"] = Some(ExpectedFailed(errh[t][s])))
  /\ [][\A t \in TraceIds : \A s \in ErrSlots :
          (errh[t][s].pc = "setStatus" /\ errh'[t][s].pc = "setSummary")
            => store'[t]["status"] = Some(ExpectedFailed(errh[t][s]))]_vars

\* C16 witness: a completed trace (it has an uploadResult) whose status an
\* ErrorHandler invocation, now returned, has set to "failed" for the step
\* "send-email".
FailedOverCompleted ==
  \E s \in ErrSlots :
    /\ errh["t1"][s].pc = "done"
    /\ IsSome(store["t1"]["uploadResult"])
    /\ store["t1"]["status"] = Some(StatusFailed("failed", "mail", "send-email"))

\* metadata asks for the user's own title: autoGenerateTitle is false and the
\* title is not empty.
UserTitle(md) == IsSome(md) /\ ~Val(md).autoGenerateTitle /\ Val(md).title # ""

\* The data of the final.title.generated / thumbnail.image.generated event
\* of the trace (None: none was emitted).
TitleEvent(t) == upload[t]["final.title.generated"].l.event
ThumbEvent(t) == upload[t]["thumbnail.image.generated"].l.event

\* What C17 promises for a title stage that has returned.
UserTitleKept(t) ==
  /\ title[t].l.nCalls = 0
  /\ store[t]["generatedTitle"]
       = Some([title |-> Val(store[t]["metadata"]).title, isGenerated |-> FALSE])
  /\ emitted[t]["final.title.generated"] = 1
  /\ emitted[t]["final.title.generation.error"] = 0
  /\ TitleEvent(t) = Some([title |-> Val(store[t]["metadata"]).title])

PlaceholderStored(t) ==
  /\ IsSome(store[t]["thumbnail"])
  /\ Val(store[t]["thumbnail"]).isPlaceholder
  /\ Val(store[t]["thumbnail"]).storageKey = "null"
  /\ ThumbEvent(t) = Some([hasImage |-> FALSE])
  /\ emitted[t]["thumbnail.image.generated"] = 1
  /\ emitted[t]["thumbnail.image.generation.error"] = 0

Changed(t) == {k \in Fields : store'[t][k] # store[t][k]}

\* No step of a handler removes a field.
NothingDeleted(t) == \A k \in Fields : IsSome(store[t][k]) => IsSome(store'[t][k])

CompletedSurvivesEmailFailure ==
  [][\A t \in Traces : \A g \in UploadTriggers :
       (StatusOf(t) = "completed" /\ errh'[t][MailSlot(g)] # errh[t][MailSlot(g)])
         => StatusOf(t)' # "failed"]_vars


(***************************************************************************)
(*        CLAIMS ABOUT LIVENESS, THE E-MAIL, STORAGE AND CREDENTIALS       *)
(***************************************************************************)
\* An event of the pipeline has been emitted for some trace.
PipelineStarted ==
  \E t \in Traces : emitted[t]["file.uploaded"] + emitted[t]["prompts.generated"] > 0

AllFinished(t) ==
  /\ upstream[t] = "prompted"
  /\ thumb[t].pc = "done" /\ title[t].pc = "done"
  /\ \A g \in UploadTriggers : upload[t][g].pc = "done"

EmailSent(t, g) == mail[t][g].pc = "setSent" \/ Succeeded(mail[t][g])

\* C23: an e-mail is sent for a trace only in reaction to a
\* youtube.upload.completed event of that trace (never to an error event),
\* and at most one e-mail is sent per trace.
EmailOnlyOnceOnSuccess ==
  \A t \in Traces :
    /\ \A g \in UploadTriggers : EmailSent(t, g) => Succeeded(upload[t][g])
    /\ Cardinality({g \in UploadTriggers : EmailSent(t, g)}) <= 1

\* C23 (first half): every e-mail sent answers a youtube.upload.completed
\* event of the trace.
EmailOnlyOnSuccess ==
  \A t \in Traces : \A g \in UploadTriggers :
    EmailSent(t, g) => (Succeeded(upload[t][g]) /\ emitted[t]["youtube.upload.completed"] > 0)

\* C24: local storage round trip: when the last call completed for a key K
\* is saveBuffer(B, K), getStream(K) yields exactly the bytes of B (the
\* latest buffer saved under K); when it is delete(K), getStream(K) fails
\* with the not-found error.
StorageRoundTrip ==
  \A k \in Keys :
    /\ sto.last[k].op = "saveBuffer" =>
         getStream(k) = [error |-> "", bytes |-> sto.last[k].buffer]
    /\ sto.last[k].op = "delete" =>
         getStream(k) = [error |-> "File not found: " \o k, bytes |-> ""]

\* C24 witness: a key holds the second buffer saved under it, and another
\* key has been deleted after a save.
SavedTwiceAndDeleted ==
  \E k, k2 \in Keys :
    /\ k # k2
    /\ sto.last[k].op = "saveBuffer" /\ sto.last[k].existed /\ sto.last[k].buffer = "B2"
    /\ sto.files[Join(BasePath, k)] = Some("B2")
    /\ sto.last[k2].op = "delete" /\ sto.last[k2].existed

\* C25: delete(K) returns without error; on a key that is absent it leaves
\* every stored object unchanged; after it K is absent, so a second
\* delete(K) changes nothing (delete is idempotent).
DeleteAbsentIsNoop ==
  /\ [](\A k \in Keys : sto.last[k].op = "delete" => sto.last[k].error = "")
  /\ [][\A k \in Keys :
          Delete(k) =>
            /\ ~IsSome(sto.files'[Join(BasePath, k)])
            /\ ~IsSome(sto.files[Join(BasePath, k)]) =>
                 (sto.files' = sto.files /\ sto.dirs' = sto.dirs)]_vars

\* C25 witness: delete has been called for a key that was absent while
\* another key holds an object.
DeletedAbsentKey ==
  \E k, k2 \in Keys :
    /\ sto.last[k].op = "delete" /\ ~sto.last[k].existed
    /\ IsSome(sto.files[Join(BasePath, k2)])

\* The adapter variant STORAGE_TYPE selects.
VariantOf(storageType) == IF storageType = "s3" THEN "s3" ELSE "local"

\* C26: getStorage returns the same adapter on every call: its variant is
\* the one selected by STORAGE_TYPE at the first call, and no later change
\* of STORAGE_TYPE changes the adapter.
SingleAdapter ==
  /\ [](/\ Cardinality(sto.got) <= 1
        /\ IsSome(sto.storageInstance) =>
             /\ sto.got = {Val(sto.storageInstance)}
             /\ Val(sto.storageInstance).variant = VariantOf(Val(sto.firstType)))
  /\ [][IsSome(sto.storageInstance) => sto.storageInstance' = sto.storageInstance]_vars

\* C26 witness: getStorage was first called with STORAGE_TYPE unset and
\* last called with STORAGE_TYPE "s3"; the adapter is the local one.
AdapterKeptAfterTypeChange ==
  /\ sto.firstType = Some("") /\ sto.lastType = Some("s3")
  /\ IsSome(sto.storageInstance) /\ Val(sto.storageInstance).variant = "local"

\* The credential records of account n, whatever the spelling stored.
RecordsOf(creds, n) == {r \in creds : r.email \in Spellings(n)}

\* C27: after any sequence of saveTokensForUser and deleteTokensForUser
\* calls there is at most one credential record per account (e-mails that
\* differ only in case or surrounding whitespace share one record), and
\* loadTokensForUser with any spelling returns the tokens saved last.
OneRecordPerEmail ==
  \A n \in Accounts :
    /\ Cardinality(RecordsOf(env.creds, n)) <= 1
    /\ \A e \in Spellings(n) : loadTokensForUser(e) = oauth.saved[n]

\* C27 witness: the account was saved twice, last under the spelling with
\* capitals and spaces, and has one record with the tokens saved last.
SavedUnderTwoSpellings ==
  /\ oauth.lastSave = [by |-> "callback", email |-> " A@X.COM "]
  /\ \E r \in env.creds :
       /\ env.creds = {r}
       /\ r.email = "a@x.com" /\ r.updatedAt = 3
       /\ r.tokens = [access_token |-> "at2", refresh_token |-> "rt2"]
  /\ oauth.order = <<"a@x.com">>

\* C28: getFirstConnectedUser returns null when no credential record
\* exists, and otherwise the record of the account whose tokens were saved
\* most recently (by the OAuth callback or by a token refresh).
MostRecentAccountFirst ==
  LET u == getFirstConnectedUser IN
    /\ (env.creds = {}) => u = None
    /\ (oauth.order = <<>>) => env.creds = {}
    /\ (oauth.order # <<>>) =>
         LET n == oauth.order[Len(oauth.order)] IN
           /\ IsSome(u)
           /\ Val(u).email \in Spellings(n)
           /\ Some(Val(u).tokens) = oauth.saved[n]

\* C28 witness: two accounts are connected and the one connected first is
\* returned, because a token refresh has saved its tokens last.
RefreshedAccountFirst ==
  /\ oauth.order = <<"b@x.com", "a@x.com">>
  /\ oauth.lastSave.by = "tokens"
  /\ \E a, b \in env.creds :
       /\ a.email = "a@x.com" /\ b.email = "b@x.com" /\ b.updatedAt = 3
       /\ getFirstConnectedUser = Some(a)

\* C30: when a client obtained from getAuthenticatedClient(email) reports
\* rotated tokens, the record of that e-mail holds afterwards the tokens
\* loaded at the creation of the client overridden by the new ones (a field
\* absent from the new tokens keeps its loaded value), and no record of
\* another e-mail changes.
RotationMergesTokens ==
  [][\A c \in 1..MaxClients : \A newTokens \in RotatedTokens :
       TokensEvent(c, newTokens) =>
         LET client == Val(oauth.clients[c])
             n == AccountOf(client.email)
         IN /\ Cardinality(RecordsOf(env'.creds, n)) = 1
            /\ \A r \in RecordsOf(env'.creds, n) :
                 /\ DOMAIN r.tokens = DOMAIN client.tokens \cup DOMAIN newTokens
                 /\ \A f \in DOMAIN r.tokens :
                      r.tokens[f] = IF f \in DOMAIN newTokens THEN newTokens[f]
                                    ELSE client.tokens[f]
            /\ env'.creds \ RecordsOf(env'.creds, n) = env.creds \ RecordsOf(env.creds, n)]_vars

\* C30 witness: a refresh without a new refresh token has been saved for
\* a@x.com (the record keeps "rt1") while b@x.com is connected too.
RefreshTokenKept ==
  /\ oauth.lastSave.by = "tokens"
  /\ \E a, b \in env.creds :
       /\ a.email = "a@x.com" /\ b.email = "b@x.com"
       /\ a.tokens = [access_token |-> "at3", refresh_token |-> "rt1"]

\* The upload invocation has failed for want of a connected account or of
\* stored tokens.
NotAuthenticated(p) == p.l.error \in {MsgNoUser, MsgNoTokens}

\* C29: getAuthenticatedClient(email) fails with "User not authenticated"
\* and creates no client when no tokens are stored for the e-mail; an upload
\* invocation that finds no connected user or no tokens goes to its catch
\* block, never calls the video host, and has emitted youtube.upload.error
\* when it returns.
AuthFailureStopsUpload ==
  /\ [][\A c \in 1..MaxClients : \A e \in EmailInputs :
          (getAuthenticatedClient(c, e) /\ ~IsSome(loadTokensForUser(e))) =>
            /\ oauth'.clients = oauth.clients
            /\ oauth'.lastAuth = [email |-> e, error |-> "User not authenticated",
                                  created |-> FALSE]]_vars
  /\ [][\A t \in Traces : \A g \in UploadTriggers :
          /\ (UploadGetUser(t, g) /\ env.creds = {}) =>
               (upload'[t][g].pc = "setFailed" /\ upload'[t][g].l.error = MsgNoUser)
          /\ (UploadGetClient(t, g) /\ ~IsSome(loadTokensForUser(upload[t][g].l.email))) =>
               (upload'[t][g].pc = "setFailed" /\ upload'[t][g].l.error = MsgNoTokens)]_vars
  /\ [](\A t \in Traces : \A g \in UploadTriggers :
          NotAuthenticated(upload[t][g]) =>
            /\ inserted[t] = 0
            /\ upload[t][g].pc \in {"setFailed", "emitError", "done"}
            /\ upload[t][g].pc = "done" =>
                 /\ upload[t][g].l.outcome = "error" /\ upload[t][g].l.nEmit = 1
                 /\ emitted[t]["youtube.upload.error"] = 1
                 /\ emitted[t]["youtube.upload.completed"] = 0)

\* C29 witness: the account was disconnected between getFirstConnectedUser
\* and getAuthenticatedClient; the upload has returned after emitting
\* youtube.upload.error, and a direct getAuthenticatedClient call has failed.
DisconnectedDuringUpload ==
  /\ \E t \in Traces :
       /\ upload[t]["file.uploaded"].pc = "done"
       /\ upload[t]["file.uploaded"].l.error = MsgNoTokens
       /\ emitted[t]["youtube.upload.error"] = 1 /\ inserted[t] = 0
  /\ oauth.lastAuth.error = "User not authenticated"


(***************************************************************************)
(*     THE UPLOAD REQUEST: TITLE, THUMBNAIL AND ERROR MESSAGE              *)
(***************************************************************************)
\* The codes of the failures of the video host: none (0), the three codes
\* the catch block tells apart, and another one.
FailureCodes == {0, 400, 401, 403, 500}

UploadFails(t, g) ==
  \/ \E code \in FailureCodes : UploadInsertFails(t, g, code)
  \/ UploadSetFailed(t, g)
  \/ UploadEmitError(t, g)

\* The upload invocation started by file.uploaded next to the thumbnail and
\* title stages, which succeed; the video host accepts the video or fails
\* with one of the codes.
NextUpload ==
  \E t \in Traces :
    \/ \E m \in MetadataIn : FileUploaded(t, [videoData |-> Some(VideoDataIn), metadata |-> Some(m)])
    \/ PromptsGenerated(t)
    \/ ThumbSucceeds(t)
    \/ TitleSucceeds(t)
    \/ UploadSucceeds(t, "file.uploaded")
    \/ UploadFails(t, "file.uploaded")

SpecUpload == InitSuccess /\ [][NextUpload]_vars

\* C31: the message the upload stage stores in status.error and sends in
\* youtube.upload.error is a function of the failure's code: 403 gives the
\* quota/permission message, 401 the authentication-expired message, 400
\* "Invalid request: " followed by the failure's message, and every other
\* failure its message unchanged.
UploadErrorByCode ==
  [][\A t \in Traces : \A g \in UploadTriggers :
       /\ \A code \in FailureCodes :
            UploadInsertFails(t, g, code) =>
              upload'[t][g].l.error =
                CASE code = 403 -> "YouTube API quota exceeded or permission denied"
                  [] code = 401 -> "YouTube authentication expired. Please reconnect your account."
                  [] code = 400 -> "Invalid request: host error"
                  [] OTHER      -> "host error"
       /\ UploadSetFailed(t, g) =>
            store'[t]["status"] = Some([status |-> "upload-failed",
                                        error |-> upload[t][g].l.error, failedStep |-> ""])
       /\ UploadEmitError(t, g) =>
            /\ errh'[t][g].topic = "youtube.upload.error"
            /\ errh'[t][g].error = upload[t][g].l.error
            /\ emitted'[t]["youtube.upload.error"] = emitted[t]["youtube.upload.error"] + 1]_vars

\* C31 witness: the host has refused the request with code 400; the status
\* and the youtube.upload.error event carry "Invalid request: host error".
InvalidRequestReported ==
  \E t \in Traces :
    /\ upload[t]["file.uploaded"].pc = "done"
    /\ upload[t]["file.uploaded"].l.error = "Invalid request: host error"
    /\ errh[t]["file.uploaded"].error = "Invalid request: host error"
    /\ IsSome(store[t]["status"])
    /\ Val(store[t]["status"]).error = "Invalid request: host error"

\* C37: when the upload invocation has read a non-placeholder thumbnail
\* (isPlaceholder false, storageKey set) that the thumbnail stage stored,
\* it sets that thumbnail on the uploaded video: the call that follows
\* youtube.videos.insert is youtube.thumbnails.set.
StoredThumbnailIsSet ==
  [][\A t \in Traces : \A g \in UploadTriggers :
       (/\ UploadInsert(t, g)
        /\ IsSome(upload[t][g].l.thumbnail)
        /\ ~Val(upload[t][g].l.thumbnail).isPlaceholder
        /\ Val(upload[t][g].l.thumbnail).storageKey # "null")
         => upload'[t][g].pc = "thumbnailsSet"]_vars

\* C37 (second half): uploadResult.thumbnailUploaded is true only if
\* youtube.thumbnails.set was called and succeeded.
ThumbnailUploadedOnlyIfSet ==
  [][\A t \in Traces : \A g \in UploadTriggers :
       UploadSetResult(t, g) =>
         (Val(store'[t]["uploadResult"]).thumbnailUploaded
            <=> upload[t][g].l.result = "thumbnailUploaded")]_vars

\* C38: the title sent to the video host is generatedTitle.title when the
\* invocation read a generatedTitle, otherwise metadata.title when there is
\* one, otherwise videoData.fileName; the title in youtube.upload.completed
\* is the title that was sent.
TitleSentIsChosenTitle ==
  [][\A t \in Traces : \A g \in UploadTriggers :
       LET l == upload[t][g].l IN
         /\ (UploadGetClient(t, g) /\ upload'[t][g].pc = "insert") =>
              upload'[t][g].l.title =
                IF IsSome(l.generatedTitle) THEN Val(l.generatedTitle).title
                ELSE IF Val(l.metadata).title # "" THEN Val(l.metadata).title
                ELSE Val(l.videoData).fileName
         /\ UploadInsert(t, g) => (l.title # "" /\ upload'[t][g].l.title = l.title)
         /\ (UploadSetResult(t, g) \/ UploadSetCompleted(t, g)) =>
              upload'[t][g].l.title = l.title
         /\ UploadEmit(t, g) => Val(mail'[t][g].l.event).title = l.title]_vars

\* C38 witness: the invocation read the metadata before the title stage
\* stored the generated title and the generatedTitle after it; the video
\* was sent with the generated title and the event carries it.
GeneratedTitleSent ==
  \E t \in Traces :
    /\ upload[t]["file.uploaded"].pc = "done"
    /\ mail[t]["file.uploaded"].l.event = Some([videoId |-> "vid", title |-> AiTitle])
    /\ inserted[t] = 1


(***************************************************************************)
(*     THE SUCCESS EVENTS AND THE HANDLERS THEY START                      *)
(***************************************************************************)
MailSucceeds(t, g) ==
  \/ MailGetUploadResult(t, g)
  \/ MailGetUser(t, g)
  \/ MailFetch(t, g, TRUE)
  \/ MailSetSent(t, g)

\* The three stages and the e-mail stage, one invocation per event: every
\* call succeeds, so every success event is emitted and starts its handlers.
NextEvents ==
  \E t \in Traces :
    \/ \E m \in MetadataIn : FileUploaded(t, [videoData |-> Some(VideoDataIn), metadata |-> Some(m)])
    \/ PromptsGenerated(t)
    \/ ThumbSucceeds(t)
    \/ TitleSucceeds(t)
    \/ \E g \in UploadTriggers : UploadSucceeds(t, g) \/ MailSucceeds(t, g)

SpecEvents == InitSuccess /\ [][NextEvents]_vars

\* The success event of each stage and the field that holds its result.
ResultField(topic) ==
  CASE topic = "thumbnail.image.generated" -> "thumbnail"
    [] topic = "final.title.generated"     -> "generatedTitle"
    [] topic = "youtube.upload.completed"  -> "uploadResult"

SuccessTopics == {"thumbnail.image.generated", "final.title.generated",
                  "youtube.upload.completed"}

EmailNotificationOf(t) == store[t]["emailNotification"]

\* C39: the e-mail stage records its outcome consistently:
\* emailNotification.sent is true only if the mail API call returned
\* success; when the call fails the stage stores sent = false and emits
\* exactly one pipeline.error with step "send-email"; when no account is
\* connected or the mail service is not configured it calls nothing, writes
\* no state and emits no event.
EmailOutcomeConsistent ==
  /\ [](\A t \in Traces :
          /\ (IsSome(EmailNotificationOf(t)) /\ Val(EmailNotificationOf(t)).sent) =>
               \E g \in UploadTriggers : mail[t][g].l.outcome = "success"
          /\ \A g \in UploadTriggers :
               /\ mail[t][g].l.outcome = "error" =>
                    /\ mail[t][g].l.nEmit = 1
                    /\ emitted[t]["pipeline.error"] >= 1
                    /\ EmailNotificationOf(t) = Some([sent |-> FALSE, to |-> "", error |-> MsgMail])
               /\ mail[t][g].l.outcome \in {"success", "skipped"} => mail[t][g].l.nEmit = 0)
  /\ [][\A t \in Traces : \A g \in UploadTriggers :
          /\ MailFetch(t, g, TRUE)  => mail'[t][g].pc = "setSent"
          /\ MailFetch(t, g, FALSE) => mail'[t][g].pc = "setNotSent"
          /\ MailSetSent(t, g) =>
               (Val(EmailNotificationOf(t)').sent /\ mail'[t][g].l.outcome = "success")
          /\ MailSetNotSent(t, g) =>
               (~Val(EmailNotificationOf(t)').sent /\ mail'[t][g].pc = "emitError")
          /\ MailEmitError(t, g) =>
               /\ errh'[t][MailSlot(g)].topic = "pipeline.error"
               /\ errh'[t][MailSlot(g)].step = "send-email"
               /\ emitted'[t]["pipeline.error"] = emitted[t]["pipeline.error"] + 1
               /\ mail'[t][g].l.outcome = "error"
          /\ (MailGetUser(t, g) /\ (env.creds = {} \/ ~env.brevo)) =>
               /\ mail'[t][g].pc = "done" /\ mail'[t][g].l.outcome = "skipped"
               /\ mail'[t][g].l.nCalls = 0 /\ mail'[t][g].l.nField = 0
               /\ store' = store /\ emitted' = emitted /\ errh' = errh]_vars

\* C39 witness: the mail API call has failed; the stage has stored
\* sent = false and emitted one pipeline.error with step "send-email".
EmailFailureRecorded ==
  \E t \in Traces :
    /\ mail[t]["file.uploaded"].l.outcome = "error"
    /\ EmailNotificationOf(t) = Some([sent |-> FALSE, to |-> "", error |-> MsgMail])
    /\ emitted[t]["pipeline.error"] = 1
    /\ errh[t][MailSlot("file.uploaded")].step = "send-email"


(***************************************************************************)
(*     THE ERRORHANDLER, ONE INVOCATION AFTER THE OTHER                    *)
(***************************************************************************)
\* An ErrorHandler invocation is between its read of `errors` and its return.
ErrRunning == \E t \in TraceIds : \E s \in ErrSlots :
                errh[t][s].pc \in {"setErrors", "setStatus", "setSummary"}

\* Error events of any shape, handled one invocation after the other: an
\* invocation starts when no other one is running.  The state store may fail.
NextErrSeq ==
  \E s \in DirectSlots :
    \/ \E ev \in ErrPayloads : ErrorEvent(s, ev)
    \/ \E t \in TraceIds :
         \/ ~ErrRunning /\ ErrGetErrors(t, s)
         \/ ~ErrRunning /\ ErrGetThrows(t, s)
         \/ ErrSetErrors(t, s)
         \/ ErrSetStatus(t, s)
         \/ ErrSetSummary(t, s)
         \/ ErrSetThrows(t, s)

SpecErrSeq == InitErr /\ [][NextErrSeq]_vars

\* The list without its last entry.
Front(list) == SubSeq(list, 1, Len(list) - 1)

FailedStepIsEntryStep ==
  [][\A t \in TraceIds : \A s \in ErrSlots :
       ErrSetSummary(t, s) =>
         Val(store'[t]["status"]).failedStep = Val(store'[t]["errorSummary"]).lastError.step]_vars

\* C35 (events that carry a step): the two steps are the event's step.
FailedStepIsEventStep ==
  [][\A t \in TraceIds : \A s \in ErrSlots :
       (ErrSetSummary(t, s) /\ errh[t][s].step # "") =>
         /\ Val(store'[t]["status"]).failedStep = errh[t][s].step
         /\ Val(store'[t]["errorSummary"]).lastError.step = errh[t][s].step]_vars


(***************************************************************************)
(*     TRACE ISOLATION                                                     *)
(***************************************************************************)
\* The error events of ErrPayloads and one of another run, whose trace id
\* is "j1".
RunPayloads ==
  ErrPayloads \cup
    {[topic |-> "pipeline.error", traceId |-> "j1", jobId |-> "", error |-> "disk", step |-> "store"]}

\* The thumbnail stage and an upload invocation of trace t1, the
\* ErrorHandler for their error events, and an ErrorHandler invocation for
\* an error event of any run.
NextRuns ==
  \/ \E t \in Traces :
       \/ UpstreamNext(t)
       \/ ThumbNext(t)
       \/ UploadNext(t, "file.uploaded")
       \/ \E s \in {"thumb", "file.uploaded"} : ErrNext(t, s)
  \/ \E ev \in RunPayloads : ErrorEvent("e1", ev)
  \/ \E u \in TraceIds : ErrNext(u, "e1")

SpecRuns == InitSuccess /\ [][NextRuns]_vars

\* An invocation of a handler for trace u takes a step.
ActsFor(u) ==
  \/ errh'[u] # errh[u]
  \/ /\ u \in Traces
     /\ \/ thumb'[u] # thumb[u] \/ title'[u] # title[u] \/ upload'[u] # upload[u]
        \/ mail'[u] # mail[u] \/ upstream'[u] # upstream[u]

\* C36: trace isolation: a step of a handler invocation writes state under
\* one trace id only, the one carried by its event (for the ErrorHandler
\* traceId, else jobId, else "unknown"); the fields of every other trace
\* are unchanged, and the errors of runs with different traceIds are never
\* recorded in the same errors list.
TraceIsolation ==
  /\ [](\A u \in TraceIds : \A i \in 1..Len(ErrorsOf(u)) :
          /\ ErrorsOf(u)[i].traceId = u
          /\ \A ev \in RunPayloads :
               (ev.traceId # "" /\ ErrorsOf(u)[i].error = ev.error) => u = ev.traceId)
  /\ [][/\ Cardinality({u \in TraceIds : store'[u] # store[u]}) <= 1
        /\ \A u \in TraceIds : store'[u] # store[u] => ActsFor(u)
        /\ \A ev \in RunPayloads :
             ErrorEvent("e1", ev) =>
               LET id == IF ev.traceId # "" THEN ev.traceId
                         ELSE IF ev.jobId # "" THEN ev.jobId ELSE "unknown"
               IN  /\ errh'[id]["e1"].pc = "queued"
                   /\ \A u \in TraceIds \ {id} : errh'[u] = errh[u]]_vars

\* C36 witness: the upload stage of trace t1 has failed and its error was
\* recorded under t1, while the error of the run j1 is recorded under j1.
ErrorsOfTwoRunsApart ==
  /\ Len(ErrorsOf("t1")) = 1 /\ ErrorsOf("t1")[1].traceId = "t1"
  /\ Len(ErrorsOf("j1")) = 1 /\ ErrorsOf("j1")[1].error = "disk"
  /\ errh["t1"]["file.uploaded"].pc = "done"


(***************************************************************************)
(*     THE OAUTH CALLBACK                                                  *)
(***************************************************************************)
NextCallback ==
  \/ \E code \in Codes : CallbackRequest(code)
  \/ \E x \in Exchanges : CallbackGetTokens(x)
  \/ \E verified \in BOOLEAN : CallbackGetEmail(verified)
  \/ CallbackSave
  \/ CallbackSaveFails
  \/ CallbackReturn

SpecCallback == InitAuth /\ [][NextCallback]_vars

\* C32: the OAuth callback persists tokens only after the code was
\* exchanged and the account e-mail was resolved: a request without a code,
\* a token set without id_token, or a failure to resolve the e-mail yields
\* the 500 response with no credential record created or changed; a
\* successful exchange upserts exactly the record of the resolved e-mail and
\* returns 200.
CallbackPersistsAfterEmail ==
  /\ [](oauth.callback.status = 200 =>
          /\ oauth.callback.code # ""
          /\ IsSome(oauth.callback.tokens)
          /\ oauth.callback.email \in EmailInputs)
  /\ [][/\ CallbackRequest("") =>
             (oauth'.callback.status = 500 /\ oauth'.callback.pc = "done" /\ env' = env)
        /\ \A x \in Exchanges :
             (CallbackGetTokens(x) /\ (x.error \/ x.id_token = None)) =>
               (oauth'.callback.status = 500 /\ oauth'.callback.pc = "done" /\ env' = env)
        /\ \A verified \in BOOLEAN :
             (CallbackGetEmail(verified)
                /\ (~verified \/ Val(oauth.callback.id_token).email = "")) =>
               (oauth'.callback.status = 500 /\ oauth'.callback.pc = "done" /\ env' = env)
        /\ env'.creds # env.creds =>
             /\ oauth.callback.pc = "save"
             /\ oauth'.callback.status = 200 /\ oauth'.callback.pc = "done"
        /\ CallbackSave =>
             LET account == AccountOf(oauth.callback.email) IN
               /\ oauth'.callback.status = 200
               /\ {r \in env'.creds : r.email # account} = {r \in env.creds : r.email # account}
               /\ \E r \in env'.creds :
                    /\ r.email = account /\ r.tokens = Val(oauth.callback.tokens)
                    /\ \A q \in env'.creds : q.email = account => q = r]_vars

\* C32 witness: a callback has replaced the tokens of a connected account,
\* reached under another spelling of its e-mail, and answered 200; the
\* record of the other account is as before.
CallbackUpdatedAccount ==
  /\ oauth.callback.status = 200 /\ oauth.callback.email = " A@X.COM "
  /\ oauth.now = 4
  /\ \E r \in env.creds : r.email = "a@x.com" /\ r.updatedAt = 4
  /\ \E r \in env.creds : r.email = "b@x.com" /\ r.updatedAt < 4


(***************************************************************************)
(*     UPLOADVIDEO                                                         *)
(***************************************************************************)
\* Storage on the local disk: STORAGE_TYPE is unset or "local".
InitVideo ==
  /\ InitStore
  /\ sto.STORAGE_TYPE # "s3"

\* Calls of uploadVideo, one at a time, next to saves of thumbnails.
NextVideo ==
  \/ \E filename \in Filenames, stream \in Buffers : UploadVideoBegin(filename, stream)
  \/ UploadVideoFinish
  \/ UploadVideoStreamError
  \/ getStorage
  \/ \E buffer \in Buffers : SaveBufferBegin(1, "thumbnails/t1.jpg", buffer)
  \/ SaveBufferWrite(1)

SpecVideo == InitVideo /\ [][NextVideo]_vars

\* C40: uploadVideo rejects a file name whose extension is not one of mp4,
\* mov, avi, webm, mkv (compared case-insensitively; the extension is the
\* text after the last dot, the whole name when it has no dot) with an error
\* before anything is written: no object is saved and the storage is
\* unchanged; for a valid file name the returned storageKey is the key
\* under which the stream was saved.
InvalidVideoRejectedUnwritten ==
  [][/\ \A filename \in Filenames : \A stream \in Buffers :
          UploadVideoBegin(filename, stream) =>
            IF ToLowerCase(filename[Len(filename)]) \in {"mp4", "mov", "avi", "webm", "mkv"}
              THEN sto'.video.pc = "saveStream" /\ sto'.video.error = ""
              ELSE /\ sto'.video.pc = "idle"
                   /\ sto'.video.error = "Invalid video format"
                   /\ sto'.video.storageKey = ""
                   /\ sto'.files = sto.files /\ sto'.dirs = sto.dirs
                   /\ sto'.storageInstance = sto.storageInstance
     /\ UploadVideoFinish =>
          /\ sto'.video.error = "" /\ sto'.video.storageKey = sto.video.key
          /\ sto'.files[Join(BasePath, sto'.video.storageKey)] = Some(sto.video.stream)
          /\ \A f \in DOMAIN sto.files \ {Join(BasePath, sto.video.key)} :
               sto'.files[f] = sto.files[f]]_vars

\* C40 witness: a thumbnail is stored; CLIP.MOV was uploaded and is stored
\* under the returned key; then a call with clip.txt was rejected.
VideoStoredThenRejected ==
  /\ sto.video.error = "Invalid video format"
  /\ "output/videos/v1.mov" \in DOMAIN sto.files
  /\ sto.files["output/videos/v1.mov"] = Some("B2")
  /\ sto.files["output/thumbnails/t1.jpg"] = Some("B1")
====
